---- MODULE Spec2Model ----
(***************************************************************************)
(* A model of the nemo materialization engine: the columnar trie (matrix   *)
(* builder, interval lookup, generic trie scan), the datavalue dictionary  *)
(* and the step-wise semi-naive chase with negation.                       *)
(*                                                                         *)
(* Rust values are modelled as follows: Option<T> is <<>> (None) or <<x>>  *)
(* (Some(x)); a half-open Range<usize> a..b is the pair <<a, b>>; a Vec is *)
(* a sequence, read with 0-based indices through At0.                      *)
(***************************************************************************)
EXTENDS Integers, Sequences, FiniteSets, TLC

VARIABLES
    \* ---- trie: Trie::from_rows and TrieScanGeneric ----
    buffer,        \* the sorted rows a trie is built from
    trie,          \* Trie.columns, once built
    path_types,    \* TrieScanGeneric.path_types
    column_scans,  \* TrieScanGeneric.column_scans
    mode,          \* what the depth-first enumeration does next
    try_type,      \* the storage type the enumeration goes down with next
    out,           \* the rows the enumeration has produced so far
    tpc            \* "init" | "scan" | "done"

trieVars == <<buffer, trie, path_types, column_scans, mode, try_type, out, tpc>>

VARIABLES
    \* ---- dictionary: a DvDict ----
    dict,          \* the dictionary
    last,          \* the last call: operation, value, result, state before
    fresh_order,   \* the <<value, id>> pairs add_datavalue returned as Fresh, in order
    marked_only    \* the values that were marked while not in the dictionary

dictVars == <<dict, last, fresh_order, marked_only>>

VARIABLES
    \* ---- chase: the rules are applied step by step ----
    program,       \* the rules and the predicates that are loaded
    tables,        \* the table manager: the subtables in the order they were added
    current_step,  \* the number of the step
    rule_index,    \* the rule that is applied next in this step
    rule_infos,    \* for every rule the step it was last applied in
    saturated,     \* for every rule whether it was saturated when last applied
    last_apply,    \* the plans of the last rule application
    cpc            \* "idle", "run" or "done"

chaseVars == <<program, tables, current_step, rule_index, rule_infos, saturated,
               last_apply, cpc>>

VARIABLES
    \* ---- materialization of a trie scan ----
    scan_arity,    \* the number of columns of the trie scan that streams buffer
    cut_layers,    \* the number of final layers that are not materialized
    mat,           \* the materialized trie
    mpc            \* "idle", "init" or "done"

matVars == <<scan_arity, cut_layers, mat, mpc>>

VARIABLES
    \* ---- materialize: the depth-first loop over a partial trie scan ----
    paths,         \* what the scan enumerates: the prefixes it can be positioned on
    target_arity,  \* the arity of the schema of the scan
    result_columns, \* the columns of the trie materialize returned
    gpc            \* "idle", "init" or "done"

gictVars == <<paths, target_arity, result_columns, gpc>>

VARIABLES
    \* ---- navigation: arbitrary calls of down, next and up on a scan ----
    nav,           \* the last call: operation, outcome, path and scans before it
    downs,         \* the number of calls of down that were accepted
    ups,           \* the number of calls of up that were accepted
    calls          \* the number of calls made

navVars == <<nav, downs, ups, calls>>

VARIABLES
    \* ---- rules: the translation of a rule into a chase rule ----
    source_rule,   \* the rule that is translated
    substituted,   \* the rule after apply_equality
    chase_rule,    \* the chase rule try_from returned
    rpc            \* "idle", "init" or "done"

ruleVars == <<source_rule, substituted, chase_rule, rpc>>

VARIABLES
    \* ---- IntervalLookupColumn: the calls made on its builder ----
    lookup_calls,    \* the calls of add_interval and add_empty so far
    lookup_builder,  \* the IntervalLookupColumnBuilder
    lookup_column,   \* the IntervalLookupColumn, once finalized
    lkpc             \* "idle", "build" or "done"

lookupVars == <<lookup_calls, lookup_builder, lookup_column, lkpc>>

VARIABLES
    \* ---- the builders of IntervalColumnT, fed with the same calls ----
    builder_calls,     \* the calls of add_value and finish_interval so far
    returned,          \* for every call what the matrix builder returned
    matrix_builders,   \* for every lookup method an IntervalColumnTBuilderMatrix
    triescan_builders, \* for every lookup method an IntervalColumnTBuilderTriescan
    interval_columns,  \* the finalized columns of both builders, by lookup method
    bpc                \* "idle", "build" or "done"

buildersVars == <<builder_calls, returned, matrix_builders, triescan_builders, interval_columns, bpc>>

VARIABLES
    \* ---- DsvHandler ----
    dsv_variant,     \* the DsvVariant try_new was called with, "none" before
    dsv_attributes,  \* the attributes try_new was called with
    dsv_handler,     \* the result of try_new: Ok(handler) or Err(error)
    dsv_reported     \* what the handler reported about its format

dsvVars == <<dsv_variant, dsv_attributes, dsv_handler, dsv_reported>>

VARIABLES
    \* ---- IntervalColumnT::global_index ----
    storage_column,  \* an IntervalColumnT
    global_indices   \* the global index of every entry of it, once computed

indexVars == <<storage_column, global_indices>>

\* The loop of materialize, one iteration at a time: the state of the loop,
\* the iterations it has run, the calls of down (after the first) and of up
\* it has made, and the prefixes of the values it has read.
VARIABLES
    materialize_state, materialize_iterations, materialize_downs, materialize_ups,
    materialize_reads, lpc
loopVars == <<materialize_state, materialize_iterations, materialize_downs, materialize_ups,
              materialize_reads, lpc>>

\* The conversion of a ground term: the logical type, the term, the outcome
\* of ground_term_to_data_value_t.
VARIABLES
    logical_type, ground_term, data_value, gtpc
conversionVars == <<logical_type, ground_term, data_value, gtpc>>

\* The round trip of an operation name: the name given, the operation
\* constructed from it, the name of that operation and the operation
\* constructed from that name.
VARIABLES
    operation_name, constructed, printed_name, reconstructed, opc
operationVars == <<operation_name, constructed, printed_name, reconstructed, opc>>

vars == <<trieVars, dictVars, chaseVars, matVars, gictVars, navVars, ruleVars, lookupVars,
          buildersVars, dsvVars, indexVars, loopVars, conversionVars, operationVars>>

(***************************************************************************)
(* Rust helpers                                                            *)
(***************************************************************************)
None == <<>>
Some(x) == <<x>>
IsSome(o) == o # <<>>
Unwrap(o) == o[1]
UnwrapOr(o, d) == IF o = <<>> THEN d ELSE o[1]
At0(s, i) == s[i + 1]
Last(s) == s[Len(s)]
Pop(s) == SubSeq(s, 1, Len(s) - 1)

\* usize::MAX, scaled to the integers of the model checker
USIZE_MAX == 2147483647

(***************************************************************************)
(* Storage types and values                                                *)
(***************************************************************************)
NUM_STORAGETYPES == 5
Id32 == 1
Id64 == 2
Int64 == 3
Float == 4
Double == 5
StorageTypes == 1..NUM_STORAGETYPES

\* A StorageValueT is <<storage type, payload>>.
TypeOf(v) == v[1]
PayloadOf(v) == v[2]

\* The order of StorageValueT: storage type first, then the payload.
ValueLess(a, b) == TypeOf(a) < TypeOf(b) \/ (TypeOf(a) = TypeOf(b) /\ PayloadOf(a) < PayloadOf(b))

RECURSIVE RowLessFrom(_, _, _)
RowLessFrom(r, s, i) ==
    IF i > Len(r) THEN FALSE
    ELSE IF r[i] = s[i] THEN RowLessFrom(r, s, i + 1)
    ELSE ValueLess(r[i], s[i])

\* Lexicographic order on rows of equal length.
RowLess(r, s) == RowLessFrom(r, s, 1)

\* A SortedTupleBuffer: rows of equal length in ascending order, each once.
IsSortedBuffer(b) == \A i \in 1..(Len(b) - 1) : RowLess(b[i], b[i + 1])

(***************************************************************************)
(* IntervalLookupColumnSingle and its builder                              *)
(***************************************************************************)
EMPTY == USIZE_MAX

LookupBuilderDefault == [starts |-> <<>>, last |-> 0]

\* IntervalLookupBuilder::add(data_count): the interval that ends at
\* data_count; empty when no data was added since the last call.
LookupAdd(lb, data_count) ==
    [starts |-> Append(lb.starts, IF data_count = lb.last THEN EMPTY ELSE lb.last),
     last   |-> data_count]

LookupFinalize(lb) == [starts |-> lb.starts, len |-> lb.last]

RECURSIVE NextStart(_, _)
\* The start of the first non-empty interval at 0-based index >= i, or the
\* length of the data column.
NextStart(lk, i) ==
    IF i >= Len(lk.starts) THEN lk.len
    ELSE IF At0(lk.starts, i) # EMPTY THEN At0(lk.starts, i)
    ELSE NextStart(lk, i + 1)

\* IntervalLookup::interval_bounds(index)
LookupIntervalBounds(lk, index) ==
    IF At0(lk.starts, index) = EMPTY THEN None
    ELSE Some(<<At0(lk.starts, index), NextStart(lk, index + 1)>>)

(***************************************************************************)
(* IntervalColumnBuilder, IntervalColumnTBuilderMatrix, IntervalColumnT    *)
(***************************************************************************)
ColumnBuilderDefault == [data |-> <<>>, interval |-> LookupBuilderDefault]

AddData(cb, value) == [cb EXCEPT !.data = Append(@, value)]

FinishInterval(cb) == [cb EXCEPT !.interval = LookupAdd(@, Len(cb.data))]

ColumnFinalize(cb) == [data |-> cb.data, interval_lookup |-> LookupFinalize(cb.interval)]

MatrixBuilderDefault ==
    [builders |-> [t \in StorageTypes |-> ColumnBuilderDefault], current_data_item |-> None]

CommitValue(b) ==
    IF IsSome(b.current_data_item)
    THEN LET value == Unwrap(b.current_data_item)
         IN  [b EXCEPT !.builders[TypeOf(value)] = AddData(@, PayloadOf(value))]
    ELSE b

\* A variant of add_value that stores every value, also a repeated one.
MatrixAddValueKeepsRepeated(b, value) ==
    [builder |-> [CommitValue(b) EXCEPT !.current_data_item = Some(value)], new_value |-> TRUE]

\* IntervalColumnTBuilderMatrix::add_value: the builder after the call and
\* the returned flag.
MatrixAddValue(b, value) ==
    IF b.current_data_item = None
    THEN [builder |-> [b EXCEPT !.current_data_item = Some(value)], new_value |-> TRUE]
    ELSE IF Unwrap(b.current_data_item) # value
         THEN [builder |-> [CommitValue(b) EXCEPT !.current_data_item = Some(value)],
               new_value |-> TRUE]
         ELSE [builder |-> b, new_value |-> FALSE]

MatrixFinishInterval(b) ==
    [builders |-> [t \in StorageTypes |-> FinishInterval(CommitValue(b).builders[t])],
     current_data_item |-> None]

ColumnLen(c, t) == Len(c.columns[t].data)

\* IntervalColumnT::new: column_starts[k] is the summed length of the first
\* k + 1 columns.
IntervalColumnTNew(cols) ==
    [columns |-> cols,
     column_starts |->
        <<Len(cols[Id32].data),
          Len(cols[Id32].data) + Len(cols[Id64].data),
          Len(cols[Id32].data) + Len(cols[Id64].data) + Len(cols[Int64].data),
          Len(cols[Id32].data) + Len(cols[Id64].data) + Len(cols[Int64].data)
              + Len(cols[Float].data),
          Len(cols[Id32].data) + Len(cols[Id64].data) + Len(cols[Int64].data)
              + Len(cols[Float].data) + Len(cols[Double].data)>>]

MatrixFinalize(b) == IntervalColumnTNew([t \in StorageTypes |-> ColumnFinalize(b.builders[t])])

\* A variant of global_index that takes the start of the Id64 entries from
\* the end of the Id64 column.
GlobalIndexShifted(c, storage_type, local_index) ==
    local_index
    + (CASE storage_type = Id32   -> 0
         [] storage_type = Id64   -> At0(c.column_starts, 1)
         [] storage_type = Int64  -> At0(c.column_starts, 1)
         [] storage_type = Float  -> At0(c.column_starts, 2)
         [] storage_type = Double -> At0(c.column_starts, 3))

\* IntervalColumnT::global_index
GlobalIndex(c, storage_type, local_index) ==
    local_index
    + (CASE storage_type = Id32   -> 0
         [] storage_type = Id64   -> At0(c.column_starts, 0)
         [] storage_type = Int64  -> At0(c.column_starts, 1)
         [] storage_type = Float  -> At0(c.column_starts, 2)
         [] storage_type = Double -> At0(c.column_starts, 3))

\* IntervalColumnT::interval_bounds
IntervalBounds(c, storage_type, index) ==
    LookupIntervalBounds(c.columns[storage_type].interval_lookup, index)

(***************************************************************************)
(* Trie::from_tuple_buffer and Trie::from_rows                             *)
(***************************************************************************)
RECURSIVE TupleLoopNoFirstGuard(_, _, _, _, _)
\* TupleLoop with the test tuple_index > 0 left out: the first tuple is
\* recorded as the start of an interval of the next column.
TupleLoopNoFirstGuard(buf, column_index, last_tuple_intervals, tuple_index, st) ==
    IF tuple_index >= Len(buf) THEN st
    ELSE LET finish == st.predecessor_index < Len(last_tuple_intervals)
                       /\ At0(last_tuple_intervals, st.predecessor_index) = tuple_index
             b1 == IF finish THEN MatrixFinishInterval(st.builder) ELSE st.builder
             p1 == IF finish THEN st.predecessor_index + 1 ELSE st.predecessor_index
             r  == MatrixAddValue(b1, At0(At0(buf, tuple_index), column_index))
             c1 == IF r.new_value
                   THEN Append(st.current_tuple_intervals, tuple_index)
                   ELSE st.current_tuple_intervals
         IN  TupleLoopNoFirstGuard(buf, column_index, last_tuple_intervals, tuple_index + 1,
                       [builder |-> r.builder, predecessor_index |-> p1,
                        current_tuple_intervals |-> c1])

RECURSIVE TupleLoop(_, _, _, _, _)
\* The inner loop of from_tuple_buffer over the tuples of one column. st
\* holds current_builder, predecessor_index and current_tuple_intervals.
TupleLoop(buf, column_index, last_tuple_intervals, tuple_index, st) ==
    IF tuple_index >= Len(buf) THEN st
    ELSE LET finish == st.predecessor_index < Len(last_tuple_intervals)
                       /\ At0(last_tuple_intervals, st.predecessor_index) = tuple_index
             b1 == IF finish THEN MatrixFinishInterval(st.builder) ELSE st.builder
             p1 == IF finish THEN st.predecessor_index + 1 ELSE st.predecessor_index
             r  == MatrixAddValue(b1, At0(At0(buf, tuple_index), column_index))
             c1 == IF r.new_value /\ tuple_index > 0
                   THEN Append(st.current_tuple_intervals, tuple_index)
                   ELSE st.current_tuple_intervals
         IN  TupleLoop(buf, column_index, last_tuple_intervals, tuple_index + 1,
                       [builder |-> r.builder, predecessor_index |-> p1,
                        current_tuple_intervals |-> c1])

RECURSIVE ColumnLoop(_, _, _, _)
\* The outer loop of from_tuple_buffer over the columns.
ColumnLoop(buf, column_index, last_tuple_intervals, columns) ==
    IF column_index >= Len(buf[1]) THEN columns
    ELSE LET st == TupleLoop(buf, column_index, last_tuple_intervals, 0,
                             [builder |-> MatrixBuilderDefault, predecessor_index |-> 0,
                              current_tuple_intervals |-> <<>>])
         IN  ColumnLoop(buf, column_index + 1, st.current_tuple_intervals,
                        Append(columns, MatrixFinalize(MatrixFinishInterval(st.builder))))

FromTupleBuffer(buf) == ColumnLoop(buf, 0, <<>>, <<>>)

\* Trie::from_rows, given the rows as TupleBuffer::finalize orders them: no
\* rows give the trie without columns.
FromRows(b) == IF b = <<>> THEN <<>> ELSE FromTupleBuffer(b)

Arity(t) == Len(t)

(***************************************************************************)
(* IntervalColumnTBuilderTriescan and Trie::from_trie_scan                 *)
(***************************************************************************)
TriescanBuilderDefault == [t \in StorageTypes |-> ColumnBuilderDefault]

\* IntervalColumnTBuilderTriescan::add_value
TriescanAddValue(b, value) == [b EXCEPT ![TypeOf(value)] = AddData(@, PayloadOf(value))]

\* IntervalColumnTBuilderTriescan::finish_interval
TriescanFinishInterval(b) == [t \in StorageTypes |-> FinishInterval(b[t])]

\* IntervalColumnTBuilderTriescan::finalize
TriescanFinalize(b) == IntervalColumnTNew([t \in StorageTypes |-> ColumnFinalize(b[t])])

RECURSIVE DistinctPrefixes(_, _)
\* The rows a complete trie scan over sorted rows streams when it is
\* advanced on layer n - 1: the distinct prefixes of length n, in order.
DistinctPrefixes(rows, n) ==
    IF rows = <<>> THEN <<>>
    ELSE LET rest == DistinctPrefixes(Tail(rows), n)
             first == SubSeq(Head(rows), 1, n)
         IN  IF rest # <<>> /\ Head(rest) = first THEN rest ELSE <<first>> \o rest

\* TrieScan::advance_on_layer: the uppermost layer on which the k-th
\* streamed row differs from the one before; 0 for the first row.
ChangedLayer(stream, k) ==
    IF k = 1 THEN 0
    ELSE (CHOOSE l \in 1..Len(stream[k]) :
             /\ stream[k][l] # stream[k - 1][l]
             /\ \A j \in 1..(l - 1) : stream[k][j] = stream[k - 1][j]) - 1

RECURSIVE ScanLoop(_, _, _)
\* The loop of from_trie_scan over the streamed rows.
ScanLoop(stream, k, intervalcolumn_builders) ==
    IF k > Len(stream) THEN intervalcolumn_builders
    ELSE LET changed_layer == ChangedLayer(stream, k)
         IN  ScanLoop(stream, k + 1,
                [i \in DOMAIN intervalcolumn_builders |->
                    LET layer == i - 1
                        current_value == At0(stream[k], layer)
                    IN  IF layer < changed_layer THEN intervalcolumn_builders[i]
                        ELSE IF layer # changed_layer
                             THEN TriescanFinishInterval(
                                      TriescanAddValue(intervalcolumn_builders[i], current_value))
                             ELSE TriescanAddValue(intervalcolumn_builders[i], current_value)])

\* Trie::from_trie_scan, for a scan of the given arity that streams rows.
FromTrieScan(arity, rows, cut) ==
    LET num_columns == arity - cut
        builders == ScanLoop(DistinctPrefixes(rows, num_columns), 1,
                             [i \in 1..num_columns |-> TriescanBuilderDefault])
    IN  [i \in 1..num_columns |-> TriescanFinalize(builders[i])]

MatIdle ==
    /\ scan_arity = 0
    /\ cut_layers = 0
    /\ mat = <<>>
    /\ mpc = "idle"

(***************************************************************************)
(* materialize: a trie scan is a tree that is walked with down, up and the *)
(* column scan of the current layer.  The tree is given by the set of the  *)
(* prefixes the scan can be positioned on; trie_scan is the position of    *)
(* the column scan of every layer on the path, 0 before the first value.   *)
(***************************************************************************)
RECURSIVE SortedSeq(_)
SortedSeq(S) ==
    IF S = {} THEN <<>>
    ELSE LET m == CHOOSE x \in S : \A y \in S : x <= y
         IN  <<m>> \o SortedSeq(S \ {m})

\* The values the column scan below a prefix enumerates, ascending.
ScanChildren(ps, prefix) ==
    SortedSeq({v \in UNION {{p[i] : i \in 1..Len(p)} : p \in ps} : Append(prefix, v) \in ps})

RECURSIVE ScanPrefix(_, _, _)
\* The values the first k layers of the scan are positioned on.
ScanPrefix(ps, trie_scan, k) ==
    IF k = 0 THEN <<>>
    ELSE LET p == ScanPrefix(ps, trie_scan, k - 1)
         IN  Append(p, ScanChildren(ps, p)[trie_scan[k]])

\* TrieScan::current_scan: the values of the column scan of the current layer.
CurrentScan(ps, trie_scan) ==
    ScanChildren(ps, ScanPrefix(ps, trie_scan, Len(trie_scan) - 1))

\* ColumnScan::current
ScanCurrent(ps, trie_scan) ==
    LET scan == CurrentScan(ps, trie_scan)
        pos == Last(trie_scan)
    IN  IF pos >= 1 /\ pos <= Len(scan) THEN Some(scan[pos]) ELSE None

\* ColumnScan::next: the position after the call.
ScanNext(ps, trie_scan) ==
    LET scan == CurrentScan(ps, trie_scan)
    IN  [trie_scan EXCEPT ![Len(trie_scan)] = IF @ <= Len(scan) THEN @ + 1 ELSE @]

\* A variant of down that starts on the first value of the layer.
ScanDownOnFirst(trie_scan) == Append(trie_scan, 1)

\* TrieScan::down and TrieScan::up
ScanDown(trie_scan) == Append(trie_scan, 0)

ScanUp(trie_scan) == Pop(trie_scan)

\* The state of materialize before its loop.
MaterializeStart(n) ==
    [current_row |-> [i \in 1..n |-> FALSE],
     current_int_starts |-> [i \in 1..n |-> 0],
     current_layer |-> 0,
     data_column_builders |-> [i \in 1..n |-> <<>>],
     intervals_column_builders |-> [i \in 1..n |-> <<>>],
     trie_scan |-> ScanDown(<<>>)]

\* The interval start that is recorded when the column scan of a layer is
\* exhausted and the layer grew: the length the layer had at the last start
\* (variant: the length the layer has now).
IntervalStartAtEnd(current_data_len, prev_data_len) == current_data_len

IntervalStart(current_data_len, prev_data_len) == prev_data_len

\* One iteration of the loop of materialize: the state after it, whether it
\* breaks, the call it makes on the trie scan ("down", "up" or "none") and
\* the prefix of the value it has read with current, if any.
MaterializeIteration(ps, n, s) ==
    LET l == s.current_layer + 1
        is_last_layer == s.current_layer >= n - 1
        current_value == ScanCurrent(ps, s.trie_scan)
        scan1 == ScanNext(ps, s.trie_scan)
        next_value == ScanCurrent(ps, scan1)
        row1 == IF ~Last(s.current_row) /\ is_last_layer
                THEN [i \in 1..n |-> TRUE] ELSE s.current_row
        adds == IF IsSome(current_value) THEN row1[l] ELSE FALSE
        data1 == IF adds
                 THEN [s.data_column_builders EXCEPT ![l] = Append(@, Unwrap(current_value))]
                 ELSE s.data_column_builders
        row2 == IF adds /\ ~is_last_layer THEN [row1 EXCEPT ![l] = FALSE] ELSE row1
        read == IF IsSome(current_value)
                THEN Some(ScanPrefix(ps, s.trie_scan, Len(s.trie_scan))) ELSE None
    IN  IF ~IsSome(next_value)
        THEN LET current_data_len == Len(data1[l])
                 prev_data_len == s.current_int_starts[l]
                 grew == current_data_len > prev_data_len
                 s1 == [current_row |-> IF is_last_layer THEN [row2 EXCEPT ![l] = FALSE] ELSE row2,
                        current_int_starts |->
                            IF grew THEN [s.current_int_starts EXCEPT ![l] = current_data_len]
                            ELSE s.current_int_starts,
                        current_layer |-> s.current_layer,
                        data_column_builders |-> data1,
                        intervals_column_builders |->
                            IF grew
                            THEN [s.intervals_column_builders EXCEPT
                                      ![l] = Append(@, IntervalStart(current_data_len, prev_data_len))]
                            ELSE s.intervals_column_builders,
                        trie_scan |-> scan1]
             IN  IF s.current_layer = 0
                 THEN [state |-> s1, break |-> TRUE, call |-> "none", read |-> read]
                 ELSE [state |-> [s1 EXCEPT !.trie_scan = ScanUp(scan1),
                                            !.current_layer = @ - 1],
                       break |-> FALSE, call |-> "up", read |-> read]
        ELSE LET s1 == [s EXCEPT !.current_row = row2,
                                 !.data_column_builders = data1,
                                 !.trie_scan = scan1]
             IN  IF ~is_last_layer
                 THEN [state |-> [s1 EXCEPT !.trie_scan = ScanDown(scan1),
                                            !.current_layer = @ + 1],
                       break |-> FALSE, call |-> "down", read |-> read]
                 ELSE [state |-> s1, break |-> FALSE, call |-> "none", read |-> read]

RECURSIVE MaterializeLoop(_, _, _)
\* The loop of materialize, until it breaks.
MaterializeLoop(ps, n, s) ==
    LET iteration == MaterializeIteration(ps, n, s)
    IN  IF iteration.break THEN iteration.state
        ELSE MaterializeLoop(ps, n, iteration.state)

\* materialize: every column is GenericIntervalColumn(data, int_starts).
Materialize(ps, n) ==
    LET s == MaterializeLoop(ps, n, MaterializeStart(n))
    IN  [i \in 1..n |-> [data |-> s.data_column_builders[i],
                         int_starts |-> s.intervals_column_builders[i]]]

LoopIdle ==
    /\ materialize_state = <<>>
    /\ materialize_iterations = 0
    /\ materialize_downs = 0
    /\ materialize_ups = 0
    /\ materialize_reads = <<>>
    /\ lpc = "idle"

GictIdle ==
    /\ paths = {}
    /\ target_arity = 0
    /\ result_columns = <<>>
    /\ gpc = "idle"

(***************************************************************************)
(* IntervalLookupColumn and its builder                                    *)
(***************************************************************************)
\* IntervalLookupColumnBuilder::default
LookupColumnBuilderDefault == [builder_lookup |-> <<>>, exclusive |-> TRUE]

\* IntervalLookupColumnBuilder::add_interval
LookupColumnAddInterval(b, interval_count) ==
    [b EXCEPT !.builder_lookup = Append(@, interval_count)]

\* A variant of add_empty that leaves the flag as it is.
LookupColumnAddEmptyKeepsExclusive(b) ==
    [b EXCEPT !.builder_lookup = Append(@, EMPTY)]

\* IntervalLookupColumnBuilder::add_empty
LookupColumnAddEmpty(b) ==
    [builder_lookup |-> Append(b.builder_lookup, EMPTY), exclusive |-> FALSE]

\* IntervalLookupColumnBuilder::finalize
LookupColumnFinalize(b) == [lookup |-> b.builder_lookup]

\* IntervalLookupColumnBuilder::is_exclusive
IsExclusive(b) == b.exclusive

\* IntervalLookupColumn::interval_index
IntervalIndex(lk, index) ==
    LET interval_index == At0(lk.lookup, index)
    IN  IF interval_index = EMPTY THEN None ELSE Some(interval_index)

LookupColumnIdle ==
    /\ lookup_calls = <<>>
    /\ lookup_builder = LookupColumnBuilderDefault
    /\ lookup_column = None
    /\ lkpc = "idle"

(***************************************************************************)
(* The three interval lookups behind IntervalLookup: a single column, two  *)
(* columns, and a bitvector with the starts indexed by rank.  Their        *)
(* builders get add(data_count) for every interval that is finished.       *)
(***************************************************************************)
LookupMethods == {"Single", "Dual", "BitVector"}

LookupBuilderDefaultOf(method) ==
    CASE method = "Single"    -> LookupBuilderDefault
      [] method = "Dual"      -> [starts |-> <<>>, lookup |-> <<>>, last |-> 0]
      [] method = "BitVector" -> [starts |-> <<>>, bits |-> <<>>, last |-> 0]

\* IntervalLookupBuilder::add(data_count)
LookupAddOf(method, lb, data_count) ==
    CASE method = "Single" -> LookupAdd(lb, data_count)
      [] method = "Dual" ->
            IF data_count = lb.last
            THEN [lb EXCEPT !.lookup = Append(@, EMPTY)]
            ELSE [starts |-> Append(lb.starts, lb.last),
                  lookup |-> Append(lb.lookup, Len(lb.starts)),
                  last   |-> data_count]
      [] method = "BitVector" ->
            IF data_count = lb.last
            THEN [lb EXCEPT !.bits = Append(@, FALSE)]
            ELSE [starts |-> Append(lb.starts, lb.last),
                  bits   |-> Append(lb.bits, TRUE),
                  last   |-> data_count]

\* IntervalLookupBuilder::finalize
LookupFinalizeOf(method, lb) ==
    CASE method = "Single"    -> LookupFinalize(lb)
      [] method = "Dual"      -> [starts |-> lb.starts, lookup |-> lb.lookup, len |-> lb.last]
      [] method = "BitVector" -> [starts |-> lb.starts, bits |-> lb.bits, len |-> lb.last]

\* The interval of the starts column at 0-based index i: up to the next
\* start, or to the end of the data.
StartsInterval(lk, i) ==
    <<At0(lk.starts, i), IF i + 1 < Len(lk.starts) THEN At0(lk.starts, i + 1) ELSE lk.len>>

\* The number of predecessors before index that have an interval.
Rank(bits, index) == Cardinality({i \in 1..index : bits[i]})

\* IntervalLookup::interval_bounds(index)
LookupIntervalBoundsOf(method, lk, index) ==
    CASE method = "Single" -> LookupIntervalBounds(lk, index)
      [] method = "Dual" ->
            IF At0(lk.lookup, index) = EMPTY THEN None
            ELSE Some(StartsInterval(lk, At0(lk.lookup, index)))
      [] method = "BitVector" ->
            IF ~At0(lk.bits, index) THEN None
            ELSE Some(StartsInterval(lk, Rank(lk.bits, index)))

\* IntervalColumnBuilder over a lookup method.
ColumnBuilderDefaultOf(method) == [data |-> <<>>, interval |-> LookupBuilderDefaultOf(method)]

FinishIntervalOf(method, cb) ==
    [cb EXCEPT !.interval = LookupAddOf(method, @, Len(cb.data))]

ColumnFinalizeOf(method, cb) ==
    [data |-> cb.data, interval_lookup |-> LookupFinalizeOf(method, cb.interval)]

\* IntervalColumnTBuilderMatrix over a lookup method.
MatrixBuilderDefaultOf(method) ==
    [builders |-> [t \in StorageTypes |-> ColumnBuilderDefaultOf(method)],
     current_data_item |-> None]

\* A variant of finish_interval that does not commit the cached value.
MatrixFinishIntervalOfNoCommit(method, b) ==
    [builders |-> [t \in StorageTypes |-> FinishIntervalOf(method, b.builders[t])],
     current_data_item |-> None]

MatrixFinishIntervalOf(method, b) ==
    [builders |-> [t \in StorageTypes |-> FinishIntervalOf(method, CommitValue(b).builders[t])],
     current_data_item |-> None]

MatrixFinalizeOf(method, b) ==
    IntervalColumnTNew([t \in StorageTypes |-> ColumnFinalizeOf(method, b.builders[t])])

\* IntervalColumnTBuilderTriescan over a lookup method.
TriescanBuilderDefaultOf(method) == [t \in StorageTypes |-> ColumnBuilderDefaultOf(method)]

TriescanFinishIntervalOf(method, b) == [t \in StorageTypes |-> FinishIntervalOf(method, b[t])]

TriescanFinalizeOf(method, b) ==
    IntervalColumnTNew([t \in StorageTypes |-> ColumnFinalizeOf(method, b[t])])

\* IntervalColumnT::interval_bounds over a lookup method.
IntervalBoundsOf(method, c, storage_type, index) ==
    LookupIntervalBoundsOf(method, c.columns[storage_type].interval_lookup, index)

BuildersIdle ==
    /\ builder_calls = <<>>
    /\ returned = <<>>
    /\ matrix_builders = <<>>
    /\ triescan_builders = <<>>
    /\ interval_columns = <<>>
    /\ bpc = "idle"

IndexIdle ==
    /\ storage_column = <<>>
    /\ global_indices = None

(***************************************************************************)
(* DsvHandler: the import and export handler of delimiter-separated values *)
(***************************************************************************)
\* The bytes b'\t' and b','.
Tab == 9
Comma == 44

\* enum DsvVariant
DsvVariants == {"DSV", "CSV", "TSV"}

Ok(v) == <<"Ok", v>>
Err(e) == <<"Err", e>>
IsOk(r) == r # <<>> /\ r[1] = "Ok"

\* ImportExportHandlers::extract_string: the string value of an attribute,
\* if the attribute is there.  A string is the sequence of its bytes.
ExtractString(attributes, name) == attributes[name]

\* A variant of extract_delimiter that ignores the delimiter attribute of a
\* CSV or TSV handler.
ExtractDelimiterIgnoresAttribute(variant, attributes) ==
    LET string == ExtractString(attributes, "delimiter")
    IN  IF string # None /\ Len(Unwrap(string)) # 1
        THEN Err("InvalidAttributeValue")
        ELSE IF variant = "DSV"
             THEN (IF string # None THEN Ok(Unwrap(string)[1]) ELSE Err("MissingAttribute"))
             ELSE Ok(Comma)

\* DsvHandler::extract_delimiter
ExtractDelimiter(variant, attributes) ==
    LET string == ExtractString(attributes, "delimiter")
    IN  IF string # None /\ Len(Unwrap(string)) # 1
        THEN Err("InvalidAttributeValue")
        ELSE LET delim_opt == IF string # None THEN Some(Unwrap(string)[1]) ELSE None
             IN  IF variant = "DSV"
                 THEN (IF delim_opt # None THEN Ok(Unwrap(delim_opt))
                       ELSE Err("MissingAttribute"))
                 ELSE IF delim_opt # None THEN Err("UnknownAttribute")
                 ELSE IF variant = "CSV" THEN Ok(Comma)
                 ELSE Ok(Comma)

\* ImportExportHandlers::extract_resource: the resource attribute, if given.
ExtractResource(attributes) == attributes["resource"]

\* DsvHandler::extract_value_formats: the value formats, if given.
ExtractValueFormats(attributes) == attributes["format"]

\* DsvHandler::try_new
DsvTryNew(variant, attributes) ==
    LET delimiter == ExtractDelimiter(variant, attributes)
    IN  IF ~IsOk(delimiter) THEN delimiter
        ELSE Ok([delimiter     |-> delimiter[2],
                 resource      |-> ExtractResource(attributes),
                 value_formats |-> ExtractValueFormats(attributes)])

\* DsvHandler::file_format
FileFormat(handler) ==
    IF handler.delimiter = Comma THEN "CSV"
    ELSE IF handler.delimiter = Tab THEN "TSV"
    ELSE "DSV"

\* DsvHandler::file_extension
FileExtension(handler) ==
    LET format == FileFormat(handler)
    IN  IF format = "CSV" THEN Some("csv")
        ELSE IF format = "DSV" THEN Some("dsv")
        ELSE Some("tsv")

\* DsvHandler::arity
DsvArity(handler) ==
    IF handler.value_formats = None THEN None
    ELSE LET vfs == Unwrap(handler.value_formats)
         IN  Some(Cardinality({i \in DOMAIN vfs : vfs[i] # "skip"}))

(***************************************************************************)
(* Logical types. A string is the sequence of its symbols.                 *)
(***************************************************************************)
LogicalTypeEnum == {"Any", "Integer", "Float64"}

\* The decimal digits, by value.
DecimalDigits == <<"0", "1", "2", "3", "4", "5", "6", "7", "8", "9">>

IsDigit(c) == \E d \in DOMAIN DecimalDigits : DecimalDigits[d] = c

DigitValue(c) == (CHOOSE d \in DOMAIN DecimalDigits : DecimalDigits[d] = c) - 1

RECURSIVE NaturalToString(_)
NaturalToString(n) ==
    IF n < 10 THEN <<DecimalDigits[n + 1]>>
    ELSE Append(NaturalToString(n \div 10), DecimalDigits[(n % 10) + 1])

\* i64::to_string
IntegerToString(i) == IF i < 0 THEN <<"-">> \o NaturalToString(0 - i) ELSE NaturalToString(i)

RECURSIVE DigitsValue(_)
DigitsValue(str) ==
    IF str = <<>> THEN 0 ELSE 10 * DigitsValue(Pop(str)) + DigitValue(Last(str))

\* str::parse::<u64>: an optional + and one digit or more.
ParseU64(str) ==
    LET digits == IF str # <<>> /\ str[1] = "+" THEN Tail(str) ELSE str
    IN  IF digits # <<>> /\ (\A k \in DOMAIN digits : IsDigit(digits[k]))
        THEN Some(DigitsValue(digits)) ELSE None

\* str::parse::<f64> on the strings of a sign and digits: an optional sign and
\* one digit or more.
ParseF64(str) ==
    LET signed == str # <<>> /\ str[1] \in {"+", "-"}
        digits == IF signed THEN Tail(str) ELSE str
    IN  IF digits # <<>> /\ (\A k \in DOMAIN digits : IsDigit(digits[k]))
        THEN Some(IF signed /\ str[1] = "-" THEN 0 - DigitsValue(digits) ELSE DigitsValue(digits))
        ELSE None

\* char::is_ascii_alphabetic on the first symbol of the string.
StartsAlphabetic(str) == str # <<>> /\ ~IsDigit(str[1]) /\ str[1] \notin {"+", "-"}

\* i64 to u64 with try_into.
TryIntoU64(i) == IF i >= 0 THEN Some(i) ELSE None

Panic == <<"Panic">>

InvalidRuleTermConversion(gt, type) == Err(<<"InvalidRuleTermConversion", gt, type>>)

\* ground_term_to_data_value_t, Self::Any
AnyToDataValue(gt) ==
    IF gt.term = "Variable" THEN Panic
    ELSE IF gt.term = "Constant"
    THEN IF StartsAlphabetic(gt.identifier) THEN Ok(<<"String", gt.identifier>>)
         ELSE Ok(<<"String", <<"<">> \o gt.identifier \o <<">">> >>)
    ELSE IF gt.term = "Integer" THEN Ok(<<"String", IntegerToString(gt.i)>>)
    ELSE IF gt.term = "Decimal"
    THEN Ok(<<"String", IntegerToString(gt.a) \o <<".">> \o NaturalToString(gt.b)>>)
    ELSE IF gt.term = "Double" THEN Ok(<<"String", IntegerToString(gt.d)>>)
    ELSE IF gt.term = "StringLiteral"
    THEN Ok(<<"String", <<"\"">> \o gt.s \o <<"\"">> >>)
    ELSE IF gt.term = "LanguageString"
    THEN Ok(<<"String", <<"\"">> \o gt.value \o <<"\"", "@">> \o gt.tag>>)
    ELSE IF gt.datatype = <<"xsd:string">>
    THEN Ok(<<"String", <<"\"">> \o gt.value \o <<"\"">> >>)
    ELSE IF gt.datatype \in {<<"xsd:double">>, <<"xsd:decimal">>, <<"xsd:integer">>}
    THEN Ok(<<"String", gt.value>>)
    ELSE Ok(<<"String", <<"\"">> \o gt.value \o <<"\"", "^^">> \o gt.datatype>>)

\* ground_term_to_data_value_t, Self::Integer: unwrap panics on a literal
\* that try_into does not convert.
IntegerToDataValue(gt) ==
    IF gt.term = "Integer"
    THEN IF TryIntoU64(gt.i) = None THEN Panic
         ELSE Ok(<<"U64", Unwrap(TryIntoU64(gt.i))>>)
    ELSE IF gt.term = "DatatypeValue"
    THEN IF gt.datatype = <<"xsd:integer">>
         THEN IF ParseU64(gt.value) = None THEN InvalidRuleTermConversion(gt, "Integer")
              ELSE Ok(<<"U64", Unwrap(ParseU64(gt.value))>>)
         ELSE InvalidRuleTermConversion(gt, "Integer")
    ELSE InvalidRuleTermConversion(gt, "Integer")

\* ground_term_to_data_value_t, Self::Float64
Float64ToDataValue(gt) ==
    IF gt.term = "Double" THEN Ok(<<"Double", gt.d>>)
    ELSE IF gt.term = "DatatypeValue"
    THEN IF gt.datatype = <<"xsd:double">>
         THEN IF ParseF64(gt.value) = None THEN InvalidRuleTermConversion(gt, "Float64")
              ELSE Ok(<<"Double", Unwrap(ParseF64(gt.value))>>)
         ELSE InvalidRuleTermConversion(gt, "Float64")
    ELSE InvalidRuleTermConversion(gt, "Float64")

\* LogicalTypeEnum::ground_term_to_data_value_t
GroundTermToDataValueT(type, gt) ==
    IF type = "Any" THEN AnyToDataValue(gt)
    ELSE IF type = "Integer" THEN IntegerToDataValue(gt)
    ELSE Float64ToDataValue(gt)

ConversionIdle ==
    /\ logical_type = "none"
    /\ ground_term = <<>>
    /\ data_value = <<>>
    /\ gtpc = "idle"

(***************************************************************************)
(* Unary operations of terms                                               *)
(***************************************************************************)
\* enum UnaryOperation
UnaryOperation ==
    {"NumericSquareroot", "NumericNegation", "NumericAbsolute", "BooleanNegation",
     "CanonicalString", "NumericCosine", "NumericSine", "NumericTangent",
     "StringLength", "StringLowercase", "StringUppercase", "NumericCeil",
     "NumericFloor", "NumericRound", "CastToInteger", "CastToDouble",
     "CastToFloat", "CheckIsInteger", "CheckIsFloat", "CheckIsDouble",
     "CheckIsIri", "CheckIsNumeric", "CheckIsNull", "CheckIsString",
     "Datatype", "LanguageTag", "LexicalValue"}

\* UnaryOperation::construct_from_name
ConstructFromName(name) ==
    CASE name = "isInteger" -> Ok("CheckIsInteger")
      [] name = "isFloat" -> Ok("CheckIsFloat")
      [] name = "isDouble" -> Ok("CheckIsDouble")
      [] name = "isIri" -> Ok("CheckIsIri")
      [] name = "isNumeric" -> Ok("CheckIsNumeric")
      [] name = "isNull" -> Ok("CheckIsNull")
      [] name = "isString" -> Ok("CheckIsString")
      [] name = "ABS" -> Ok("NumericAbsolute")
      [] name = "SQRT" -> Ok("NumericSquareroot")
      [] name = "NOT" -> Ok("BooleanNegation")
      [] name = "fullStr" -> Ok("CanonicalString")
      [] name = "STR" -> Ok("LexicalValue")
      [] name = "SIN" -> Ok("NumericSine")
      [] name = "COS" -> Ok("NumericCosine")
      [] name = "TAN" -> Ok("NumericTangent")
      [] name = "STRLEN" -> Ok("StringLength")
      [] name = "UCASE" -> Ok("StringLowercase")
      [] name = "LCASE" -> Ok("StringUppercase")
      [] name = "ROUND" -> Ok("NumericRound")
      [] name = "CEIL" -> Ok("NumericCeil")
      [] name = "FLOOR" -> Ok("NumericFloor")
      [] name = "DATATYPE" -> Ok("Datatype")
      [] name = "LANG" -> Ok("LanguageTag")
      [] name = "INT" -> Ok("CastToInteger")
      [] name = "DOUBLE" -> Ok("CastToDouble")
      [] name = "FLOAT" -> Ok("CastToFloat")
      [] OTHER -> Err(<<"UnknownUnaryOpertation", name>>)

\* UnaryOperation::name
UnaryOperationName(self) ==
    CASE self = "NumericSquareroot" -> "SQRT"
      [] self = "NumericNegation" -> "MINUS"
      [] self = "NumericAbsolute" -> "ABS"
      [] self = "BooleanNegation" -> "NOT"
      [] self = "CanonicalString" -> "fullStr"
      [] self = "NumericCosine" -> "COS"
      [] self = "NumericSine" -> "SIN"
      [] self = "NumericTangent" -> "TAN"
      [] self = "StringLength" -> "STRLEN"
      [] self = "StringLowercase" -> "LCASE"
      [] self = "StringUppercase" -> "UCASE"
      [] self = "NumericCeil" -> "CEIL"
      [] self = "NumericFloor" -> "FLOOR"
      [] self = "NumericRound" -> "ROUND"
      [] self = "CastToInteger" -> "INT"
      [] self = "CastToDouble" -> "DOUBLE"
      [] self = "CastToFloat" -> "FLOAT"
      [] self = "CheckIsInteger" -> "isInteger"
      [] self = "CheckIsFloat" -> "isFloat"
      [] self = "CheckIsDouble" -> "isDouble"
      [] self = "CheckIsIri" -> "isIri"
      [] self = "CheckIsNumeric" -> "IsNumeric"
      [] self = "CheckIsNull" -> "isNull"
      [] self = "CheckIsString" -> "isString"
      [] self = "Datatype" -> "DATATYPE"
      [] self = "LanguageTag" -> "LANG"
      [] self = "LexicalValue" -> "STR"

OperationIdle ==
    /\ operation_name = ""
    /\ constructed = <<>>
    /\ printed_name = ""
    /\ reconstructed = <<>>
    /\ opc = "idle"

DsvIdle ==
    /\ dsv_variant = "none"
    /\ dsv_attributes = <<>>
    /\ dsv_handler = <<>>
    /\ dsv_reported = <<>>

(***************************************************************************)
(* ColumnScanRainbow: one scan per storage type over the data column of    *)
(* that type. A scan covers the window lo..hi of its column; pos is the    *)
(* index of the element it points at, if any.                              *)
(***************************************************************************)
\* IntervalColumnT::iter
ColumnIter(c) ==
    [t \in StorageTypes |-> [len |-> Len(c.columns[t].data), lo |-> 0,
                             hi |-> Len(c.columns[t].data), pos |-> None]]

RainbowReset(rb, t) == [rb EXCEPT ![t] = [len |-> @.len, lo |-> 0, hi |-> @.len, pos |-> None]]

RainbowNarrow(rb, t, interval) ==
    [rb EXCEPT ![t] = [len |-> @.len, lo |-> interval[1], hi |-> interval[2], pos |-> None]]

RainbowPos(rb, t) == rb[t].pos

\* The index the scan of type t moves to with next, if that is an element.
NextPos(rb, t) ==
    LET p == IF rb[t].pos = None THEN rb[t].lo ELSE Unwrap(rb[t].pos) + 1
    IN  IF p < rb[t].hi THEN Some(p) ELSE None

RainbowNext(rb, t) == [rb EXCEPT ![t].pos = NextPos(rb, t)]

\* The value the scan of type t over column c points at.
RainbowCurrent(c, rb, t) ==
    IF rb[t].pos = None THEN None
    ELSE Some(<<t, At0(c.columns[t].data, Unwrap(rb[t].pos))>>)

(***************************************************************************)
(* TrieScanGeneric                                                         *)
(***************************************************************************)
\* Trie::iter
TrieIter(t) == [i \in 1..Len(t) |-> ColumnIter(t[i])]

\* TrieScanGeneric::down, below the root: the scan of the next layer,
\* narrowed to the interval of the element the current layer points at.
DownBelowRoot(t, pt, cs, next_type) ==
    LET current_type  == Last(pt)
        next_layer    == Len(pt)
        current_layer == next_layer - 1
        local_index   == Unwrap(RainbowPos(At0(cs, current_layer), current_type))
        global_index  == GlobalIndex(At0(t, current_layer), current_type, local_index)
        next_interval == UnwrapOr(IntervalBounds(At0(t, next_layer), next_type, global_index),
                                  <<0, 0>>)
    IN  [cs EXCEPT ![next_layer + 1] = RainbowNarrow(@, next_type, next_interval)]

\* TrieScanGeneric::down: the column scans after the call.
DownScans(t, pt, cs, next_type) ==
    IF pt = <<>> THEN [cs EXCEPT ![1] = RainbowReset(@, next_type)]
    ELSE DownBelowRoot(t, pt, cs, next_type)

\* down is legal at the root, and below it when the current layer points at
\* an element (the expect in down).
DownLegal(pt, cs) ==
    IF pt = <<>> THEN TRUE ELSE IsSome(RainbowPos(At0(cs, Len(pt) - 1), Last(pt)))

\* The row under the scan: the current value of every layer of the path.
CurrentRow(t, pt, cs) ==
    [l \in 1..Len(pt) |-> Unwrap(RainbowCurrent(t[l], cs[l], pt[l]))]

\* down panics: at the root when the trie has no layer 0, below it when the
\* current layer does not point at an element (the expect) or when there
\* is no next layer (columns[next_layer]).
DownPanics(t, pt, cs) ==
    IF pt = <<>> THEN Arity(t) = 0
    ELSE IF ~DownLegal(pt, cs) THEN TRUE
    ELSE Len(pt) >= Arity(t)

\* A variant of up without the assertion: pop on the empty path.
UpPanicsNever(pt) == FALSE

\* up panics in the starting position (the debug_assert, with debug
\* assertions enabled).
UpPanics(pt) == pt = <<>>

\* A variant of up that also resets the scan of the layer it leaves.
UpScansResetsLayer(pt, cs) == [cs EXCEPT ![Len(pt)] = RainbowReset(@, Last(pt))]

\* TrieScanGeneric::up: the column scans after the call; up only pops the
\* path.
UpScans(pt, cs) == cs

NoNav == [op |-> "none", outcome |-> "none", next_type |-> Id32,
          path_types |-> <<>>, column_scans |-> <<>>]

NavIdle ==
    /\ nav = NoNav
    /\ downs = 0
    /\ ups = 0
    /\ calls = 0

(***************************************************************************)
(* The datavalue dictionary (DvDict) and AddResult                         *)
(***************************************************************************)
NONEXISTING_ID_MARK == USIZE_MAX
KNOWN_ID_MARK == USIZE_MAX - 1

Fresh(id) == <<"Fresh", id>>
Known(id) == <<"Known", id>>
Rejected == <<"Rejected">>

\* A mutant of AddResult::value: Rejected yields the id of marked entries.
AddResultValueRejectedAsKnown(r) ==
    CASE r[1] = "Fresh"    -> r[2]
      [] r[1] = "Known"    -> r[2]
      [] r[1] = "Rejected" -> KNOWN_ID_MARK

\* AddResult::value
AddResultValue(r) ==
    CASE r[1] = "Fresh"    -> r[2]
      [] r[1] = "Known"    -> r[2]
      [] r[1] = "Rejected" -> NONEXISTING_ID_MARK

\* The number of datavalues the dictionary supports.
NumDataValues == 3

\* The datavalues the dictionary supports, and one it rejects.
SupportedValues == 1..NumDataValues
UnsupportedValues == {0}
DataValues == SupportedValues \cup UnsupportedValues

DictNew == [dv_to_id |-> [dv \in DataValues |-> None], id_to_dv |-> <<>>, has_marked |-> FALSE]

\* DvDict::datavalue_to_id
DatavalueToId(d, dv) == d.dv_to_id[dv]

\* DvDict::id_to_datavalue
IdToDatavalue(d, id) == IF id < Len(d.id_to_dv) THEN Some(At0(d.id_to_dv, id)) ELSE None

\* DvDict::len
DictLen(d) == Len(d.id_to_dv)

\* A mutant of add_datavalue: a marked value is given a fresh id.
AddDatavalueFreshForMarked(d, dv) ==
    IF dv \notin SupportedValues THEN [dict |-> d, result |-> Rejected]
    ELSE IF IsSome(d.dv_to_id[dv]) /\ Unwrap(d.dv_to_id[dv]) # KNOWN_ID_MARK
         THEN [dict |-> d, result |-> Known(Unwrap(d.dv_to_id[dv]))]
         ELSE [dict |-> [d EXCEPT !.dv_to_id[dv] = Some(Len(d.id_to_dv)),
                                  !.id_to_dv = Append(@, dv)],
               result |-> Fresh(Len(d.id_to_dv))]

\* A mutant of add_datavalue: the fresh id is the id of the last entry.
AddDatavalueReusedId(d, dv) ==
    IF dv \notin SupportedValues THEN [dict |-> d, result |-> Rejected]
    ELSE IF IsSome(d.dv_to_id[dv])
         THEN [dict |-> d, result |-> Known(Unwrap(d.dv_to_id[dv]))]
         ELSE LET id == IF Len(d.id_to_dv) = 0 THEN 0 ELSE Len(d.id_to_dv) - 1
              IN  [dict |-> [d EXCEPT !.dv_to_id[dv] = Some(id),
                                      !.id_to_dv = IF Len(@) = 0 THEN <<dv>>
                                                   ELSE [@ EXCEPT ![Len(@)] = dv]],
                   result |-> Fresh(id)]

\* DvDict::add_datavalue: the dictionary after the call and the result.
AddDatavalue(d, dv) ==
    IF dv \notin SupportedValues THEN [dict |-> d, result |-> Rejected]
    ELSE IF IsSome(d.dv_to_id[dv])
         THEN [dict |-> d, result |-> Known(Unwrap(d.dv_to_id[dv]))]
         ELSE [dict |-> [d EXCEPT !.dv_to_id[dv] = Some(Len(d.id_to_dv)),
                                  !.id_to_dv = Append(@, dv)],
               result |-> Fresh(Len(d.id_to_dv))]

\* DvDict::mark_dv: the dictionary after the call and the result.
MarkDv(d, dv) ==
    IF dv \notin SupportedValues THEN [dict |-> d, result |-> Rejected]
    ELSE IF IsSome(d.dv_to_id[dv])
         THEN [dict |-> d, result |-> Known(Unwrap(d.dv_to_id[dv]))]
         ELSE [dict |-> [d EXCEPT !.dv_to_id[dv] = Some(KNOWN_ID_MARK), !.has_marked = TRUE],
               result |-> Fresh(KNOWN_ID_MARK)]

\* DvDict::has_marked
HasMarked(d) == d.has_marked

NoCall == [op |-> "none", dv |-> 0, result |-> Rejected, value |-> 0, before |-> None,
           len_before |-> 0]

DictIdle ==
    /\ dict = DictNew
    /\ last = NoCall
    /\ fresh_order = <<>>
    /\ marked_only = {}

(***************************************************************************)
(* Chase rules                                                             *)
(***************************************************************************)
\* VariableAtom::new
VariableAtom(predicate, variables) == [predicate |-> predicate, variables |-> variables]

\* A constraint between two variables: left < right or left != right.
Constraint(op, left, right) == [op |-> op, left |-> left, right |-> right]

ConstraintVariables(c) == {c.left, c.right}

\* The constraint under an assignment of its variables.
ConstraintHolds(c, a) ==
    CASE c.op = "<"  -> a[c.left] < a[c.right]
      [] c.op = "!=" -> a[c.left] # a[c.right]

\* ChaseRule: the parts of a rule without constructors and aggregates.
ChaseRule(head, positive_body, positive_constraints, negative_body, negative_constraints) ==
    [head |-> head,
     positive_body |-> positive_body,
     positive_constraints |-> positive_constraints,
     negative_body |-> negative_body,
     negative_constraints |-> negative_constraints]

RECURSIVE Flatten(_)
\* The constraints of all negative atoms, as handed to node_negation.
Flatten(ss) == IF ss = <<>> THEN <<>> ELSE Head(ss) \o Flatten(Tail(ss))

SeqRange(s) == {s[i] : i \in DOMAIN s}

(***************************************************************************)
(* The table manager: subtables by predicate and step                      *)
(***************************************************************************)
\* A mutant of add: a subtable of the same predicate is replaced by the
\* union with the new rows instead of being kept as it is.
TableManagerAddMerging(tm, predicate, step, rows) ==
    IF \E i \in DOMAIN tm : tm[i].predicate = predicate
    THEN LET i == CHOOSE j \in DOMAIN tm : tm[j].predicate = predicate
         IN  [tm EXCEPT ![i] = [predicate |-> predicate, step |-> step,
                                rows |-> tm[i].rows \cup rows]]
    ELSE Append(tm, [predicate |-> predicate, step |-> step, rows |-> rows])

\* add(pred, step, trie, permutation): the subtable is appended.
TableManagerAdd(tm, predicate, step, rows) ==
    Append(tm, [predicate |-> predicate, step |-> step, rows |-> rows])

\* union_scan(pred, step_range, permutation): the rows of all subtables of
\* the predicate whose step is in lo..hi-1.
UnionScan(tm, predicate, lo, hi) ==
    UNION {tm[i].rows : i \in {j \in DOMAIN tm :
                                 /\ tm[j].predicate = predicate
                                 /\ lo <= tm[j].step
                                 /\ tm[j].step < hi}}

(***************************************************************************)
(* Execution plans: nodes and their evaluation                             *)
(***************************************************************************)
\* A tree without a root.
EmptyTree == [kind |-> "empty"]

\* subplan_union: load the subtables of a predicate in a range of steps.
SubplanUnion(predicate, lo, hi, markers) ==
    [kind |-> "load", predicate |-> predicate, lo |-> lo, hi |-> hi, markers |-> markers]

\* node_filter
NodeFilter(node, constraints) == [kind |-> "filter", node |-> node, constraints |-> constraints]

PlanJoin(subnodes) == [kind |-> "join", subnodes |-> subnodes]

PlanUnion(subnodes) == [kind |-> "union", subnodes |-> subnodes]

\* plan.subtract
PlanSubtract(node_main, subtracted) ==
    [kind |-> "subtract", node_main |-> node_main, subtracted |-> subtracted]

PlanProject(node, markers) == [kind |-> "project", node |-> node, markers |-> markers]

\* Two assignments agree on the variables they share.
Compatible(a, b) == \A v \in DOMAIN a \cap DOMAIN b : a[v] = b[v]

MergeAssignments(a, b) ==
    [v \in DOMAIN a \cup DOMAIN b |-> IF v \in DOMAIN a THEN a[v] ELSE b[v]]

JoinTwo(A, B) ==
    {MergeAssignments(p[1], p[2]) : p \in {q \in A \X B : Compatible(q[1], q[2])}}

RECURSIVE JoinAll(_)
JoinAll(s) == IF Len(s) = 1 THEN s[1] ELSE JoinTwo(s[1], JoinAll(Tail(s)))

\* The assignment a row gives to the markers of a loaded table.
RowAssignment(row, markers) ==
    [v \in SeqRange(markers) |-> row[CHOOSE i \in DOMAIN markers : markers[i] = v]]

RECURSIVE Eval(_, _)
\* The result of a node over the table manager: a set of assignments, and
\* for a projection a set of rows.  A filter applies the constraints whose
\* variables the node has and skips the others.
Eval(tm, node) ==
    CASE node.kind = "empty" -> {}
      [] node.kind = "load" ->
            {RowAssignment(row, node.markers) :
                row \in UnionScan(tm, node.predicate, node.lo, node.hi)}
      [] node.kind = "filter" ->
            {a \in Eval(tm, node.node) :
                \A i \in DOMAIN node.constraints :
                    ConstraintVariables(node.constraints[i]) \subseteq DOMAIN a
                        => ConstraintHolds(node.constraints[i], a)}
      [] node.kind = "join" ->
            JoinAll([i \in DOMAIN node.subnodes |-> Eval(tm, node.subnodes[i])])
      [] node.kind = "union" ->
            UNION {Eval(tm, node.subnodes[i]) : i \in DOMAIN node.subnodes}
      [] node.kind = "subtract" ->
            {a \in Eval(tm, node.node_main) :
                \A i \in DOMAIN node.subtracted :
                    ~ \E b \in Eval(tm, node.subtracted[i]) : Compatible(a, b)}
      [] node.kind = "project" ->
            {[i \in DOMAIN node.markers |-> a[node.markers[i]]] : a \in Eval(tm, node.node)}

RECURSIVE PlanLoads(_)
\* The loads of a plan: predicate and range of steps.
PlanLoads(node) ==
    CASE node.kind = "empty" -> {}
      [] node.kind = "load" -> {<<node.predicate, node.lo, node.hi>>}
      [] node.kind = "filter" -> PlanLoads(node.node)
      [] node.kind = "join" -> UNION {PlanLoads(node.subnodes[i]) : i \in DOMAIN node.subnodes}
      [] node.kind = "union" -> UNION {PlanLoads(node.subnodes[i]) : i \in DOMAIN node.subnodes}
      [] node.kind = "subtract" ->
            PlanLoads(node.node_main)
                \cup UNION {PlanLoads(node.subtracted[i]) : i \in DOMAIN node.subtracted}
      [] node.kind = "project" -> PlanLoads(node.node)

(***************************************************************************)
(* Planning a rule application                                             *)
(***************************************************************************)
\* seminaive_join: for every atom of the body the join of its subtables
\* since the last application with all subtables of the other atoms, the
\* union of these joins, and the filters on top; None for an empty body.
SeminaiveJoin(step_last_applied, step_number, body, filters) ==
    IF body = <<>> THEN None
    ELSE Some(NodeFilter(
            PlanUnion([i \in DOMAIN body |->
                PlanJoin([j \in DOMAIN body |->
                    SubplanUnion(body[j].predicate,
                                 IF j = i THEN step_last_applied ELSE 0,
                                 step_number,
                                 body[j].variables)])]),
            filters))

\* A mutant of add_body_tree: the subtables of the step of the last
\* application are left out.
AddBodyTreeAfterLastApplied(rule, rule_info, step_number) ==
    LET seminaive_node == SeminaiveJoin(rule_info.step_last_applied + 1, step_number,
                                        rule.positive_body, rule.positive_constraints)
    IN  IF IsSome(seminaive_node) THEN Unwrap(seminaive_node) ELSE EmptyTree

\* SeminaiveStrategy::add_body_tree
AddBodyTree(rule, rule_info, step_number) ==
    LET seminaive_node == SeminaiveJoin(rule_info.step_last_applied, step_number,
                                        rule.positive_body, rule.positive_constraints)
    IN  IF IsSome(seminaive_node) THEN Unwrap(seminaive_node) ELSE EmptyTree

\* A mutant of node_negation: the range of steps includes the current step.
NodeNegationInclusiveRange(node_main, current_step_number, subtracted_atoms, subtracted_filters) ==
    PlanSubtract(node_main,
        [i \in DOMAIN subtracted_atoms |->
            NodeFilter(SubplanUnion(subtracted_atoms[i].predicate, 0, current_step_number + 1,
                                    subtracted_atoms[i].variables),
                       subtracted_filters)])

\* A mutant of node_negation: the constraints are not applied.
NodeNegationUnfiltered(node_main, current_step_number, subtracted_atoms, subtracted_filters) ==
    PlanSubtract(node_main,
        [i \in DOMAIN subtracted_atoms |->
            SubplanUnion(subtracted_atoms[i].predicate, 0, current_step_number,
                         subtracted_atoms[i].variables)])

\* node_negation
NodeNegation(node_main, current_step_number, subtracted_atoms, subtracted_filters) ==
    PlanSubtract(node_main,
        [i \in DOMAIN subtracted_atoms |->
            NodeFilter(SubplanUnion(subtracted_atoms[i].predicate, 0, current_step_number,
                                    subtracted_atoms[i].variables),
                       subtracted_filters)])

\* HeadStrategy::add_plan_head for a head atom whose variables are all bound
\* by the body: the body without the rows the predicate has from earlier
\* steps, in the order of the head's arguments.
AddPlanHead(body, head_atom, step_number) ==
    PlanProject(
        PlanSubtract(body, <<SubplanUnion(head_atom.predicate, 0, step_number,
                                           head_atom.variables)>>),
        head_atom.variables)

\* The plans of all head atoms of a rule.
HeadPlans(body, rule, step_number) ==
    [i \in DOMAIN rule.head |-> AddPlanHead(body, rule.head[i], step_number)]

RECURSIVE ExecutePlans(_, _, _, _, _)
\* The plans are executed over the table manager as it was when the rule
\* application began; every non-empty result is added as a subtable.
ExecutePlans(tm_read, tm, plans, rule, step_number) ==
    IF plans = <<>> THEN tm
    ELSE LET i == Len(rule.head) - Len(plans) + 1
             rows == Eval(tm_read, Head(plans))
             next == IF rows = {} THEN tm
                     ELSE TableManagerAdd(tm, rule.head[i].predicate, step_number, rows)
         IN  ExecutePlans(tm_read, next, Tail(plans), rule, step_number)

\* A mutant of the test: only the last rule is asked.
AllSaturatedLastRule(flags) == IF flags = <<>> THEN TRUE ELSE flags[Len(flags)]

\* The chase loop ends when all rules are saturated at the same step.
AllSaturated(flags) == \A i \in DOMAIN flags : flags[i]

(***************************************************************************)
(* Inputs of the chase model                                               *)
(***************************************************************************)
\* The values of the facts.
Dom == {1, 2, 3}

\* The largest number of facts that are loaded.
MaxFacts == 4

\* t(x, y) :- e(x, y), x != y.    t(x, z) :- t(x, y), t(y, z).
ProgramClosure ==
    [rules |-> <<ChaseRule(<<VariableAtom("t", <<"x", "y">>)>>,
                           <<VariableAtom("e", <<"x", "y">>)>>,
                           <<Constraint("!=", "x", "y")>>, <<>>, <<>>),
                 ChaseRule(<<VariableAtom("t", <<"x", "z">>)>>,
                           <<VariableAtom("t", <<"x", "y">>), VariableAtom("t", <<"y", "z">>)>>,
                           <<>>, <<>>, <<>>)>>,
     edb |-> <<<<"e", 2>>>>]

\* p(x) :- p(x).
ProgramLoop ==
    [rules |-> <<ChaseRule(<<VariableAtom("p", <<"x">>)>>,
                           <<VariableAtom("p", <<"x">>)>>, <<>>, <<>>, <<>>)>>,
     edb |-> <<<<"p", 1>>>>]

\* r(x) :- p(x), not q(x).
ProgramNegation ==
    [rules |-> <<ChaseRule(<<VariableAtom("r", <<"x">>)>>,
                           <<VariableAtom("p", <<"x">>)>>, <<>>,
                           <<VariableAtom("q", <<"x">>)>>, <<<<>>>>)>>,
     edb |-> <<<<"p", 1>>, <<"q", 1>>>>]

\* q(x) :- s(x).    r(x) :- p(x), not q(x).
ProgramDerivedNegation ==
    [rules |-> <<ChaseRule(<<VariableAtom("q", <<"x">>)>>,
                           <<VariableAtom("s", <<"x">>)>>, <<>>, <<>>, <<>>),
                 ChaseRule(<<VariableAtom("r", <<"x">>)>>,
                           <<VariableAtom("p", <<"x">>)>>, <<>>,
                           <<VariableAtom("q", <<"x">>)>>, <<<<>>>>)>>,
     edb |-> <<<<"p", 1>>, <<"s", 1>>>>]

\* r(x) :- p(x), not q(x, y), y < x, not s(x).
ProgramFilteredNegation ==
    [rules |-> <<ChaseRule(<<VariableAtom("r", <<"x">>)>>,
                           <<VariableAtom("p", <<"x">>)>>, <<>>,
                           <<VariableAtom("q", <<"x", "y">>), VariableAtom("s", <<"x">>)>>,
                           <<<<Constraint("<", "y", "x")>>, <<>>>>)>>,
     edb |-> <<<<"p", 1>>, <<"q", 2>>, <<"s", 1>>>>]

Programs == {ProgramClosure, ProgramLoop, ProgramNegation, ProgramDerivedNegation,
             ProgramFilteredNegation}

NoProgram == [rules |-> <<>>, edb |-> <<>>]

\* All facts of the loaded predicates, as pairs of predicate and row.
EdbRows(prog) ==
    UNION {{<<prog.edb[i][1], row>> : row \in [1..prog.edb[i][2] -> Dom]} : i \in DOMAIN prog.edb}

RECURSIVE SubsetsUpTo(_, _)
\* The subsets of S with at most k elements.
SubsetsUpTo(S, k) ==
    IF k = 0 THEN {{}}
    ELSE LET smaller == SubsetsUpTo(S, k - 1)
         IN  smaller \cup {s \cup {x} : s \in smaller, x \in S}

RECURSIVE LoadTables(_, _, _)
\* The loaded facts become the subtables of step 0.
LoadTables(tm, preds, facts) ==
    IF preds = <<>> THEN tm
    ELSE LET rows == {f[2] : f \in {g \in facts : g[1] = Head(preds)[1]}}
             next == IF rows = {} THEN tm ELSE TableManagerAdd(tm, Head(preds)[1], 0, rows)
         IN  LoadTables(next, Tail(preds), facts)

NoApply == [rule_index |-> 0, step |-> 0, step_last_applied |-> 0, node_main |-> EmptyTree,
            node_negated |-> EmptyTree, head_plans |-> <<>>]

ChaseIdle ==
    /\ program = NoProgram
    /\ tables = <<>>
    /\ current_step = 0
    /\ rule_index = 0
    /\ rule_infos = <<>>
    /\ saturated = <<>>
    /\ last_apply = NoApply
    /\ cpc = "idle"

(***************************************************************************)
(* Inputs of the trie model                                                *)
(***************************************************************************)
\* Tries of one to three layers: a root layer, an inner layer, a leaf layer.
Arities == {1, 2, 3}

\* The largest number of rows of a buffer a trie is built from.
MaxRows == 3

\* The largest number of rows of a buffer whose trie is scanned.
MaxScanRows == 2

\* The values a cell of an input row is drawn from.
Values == {<<Id32, 0>>, <<Int64, 0>>, <<Int64, 1>>}

\* The sorted buffers of at most k rows.
Buffers(k) ==
    UNION {{b \in [1..m -> [1..n -> Values]] : IsSortedBuffer(b)} : n \in Arities, m \in 0..k}

(***************************************************************************)
(* Rules and their translation into chase rules (ChaseRule::try_from).     *)
(* A term is <<kind, prefix, id>>: the variable named prefix followed by   *)
(* id, the ground term id, or a term that is not primitive and holds the   *)
(* variable named prefix followed by id.                                   *)
(***************************************************************************)
EQUALITY_VARIABLE_PREFIX == "_EQUALITY_"
CONSTRUCT_VARIABLE_PREFIX == "_CONSTRUCT_"

TermVariable(name) == <<"Variable", name[1], name[2]>>
TermGround(value) == <<"Ground", "", value>>
TermBinary(name) == <<"Binary", name[1], name[2]>>

IsVariable(term) == term[1] = "Variable"
IsPrimitive(term) == term[1] # "Binary"
VariableName(term) == <<term[2], term[3]>>

\* Term::variables
TermVariables(term) == IF term[1] = "Ground" THEN {} ELSE {VariableName(term)}

Atom(predicate, terms) == [predicate |-> predicate, terms |-> terms]
Literal(positive, atom) == [positive |-> positive, atom |-> atom]
Rule(head, body, constraints) == [head |-> head, body |-> body, constraints |-> constraints]

\* ChaseRule::generate_incrementing_variable_name: the name, as prefix and id.
GenerateIncrementingVariableName(prefix, next_variable_id) == <<prefix, next_variable_id>>

\* HashMap::insert
Insert(map, key, value) ==
    [k \in (DOMAIN map) \cup {key} |-> IF k = key THEN value ELSE map[k]]

\* Term::apply_assignment: one pass, the term assigned to a variable is not
\* rewritten again.
TermApplyAssignment(term, assignment) ==
    IF term[1] = "Ground" THEN term
    ELSE IF VariableName(term) \in DOMAIN assignment
         THEN <<term[1], assignment[VariableName(term)][2], assignment[VariableName(term)][3]>>
         ELSE term

AtomApplyAssignment(atom, assignment) ==
    Atom(atom.predicate,
         [i \in DOMAIN atom.terms |-> TermApplyAssignment(atom.terms[i], assignment)])

\* Rule::apply_assignment: every term of the head, the body and the constraints.
RuleApplyAssignment(rule, assignment) ==
    Rule([i \in DOMAIN rule.head |-> AtomApplyAssignment(rule.head[i], assignment)],
         [i \in DOMAIN rule.body |->
             Literal(rule.body[i].positive, AtomApplyAssignment(rule.body[i].atom, assignment))],
         [i \in DOMAIN rule.constraints |->
             Constraint(rule.constraints[i].op,
                        TermApplyAssignment(rule.constraints[i].left, assignment),
                        TermApplyAssignment(rule.constraints[i].right, assignment))])

\* A constraint of the form ?X = ?Y.
IsVariableEquality(constraint) ==
    constraint.op = "Equals" /\ IsVariable(constraint.left) /\ IsVariable(constraint.right)

RECURSIVE EqualityAssignment(_, _, _)
\* The assignment apply_equality collects while it drops the equalities.
EqualityAssignment(constraints, i, assignment) ==
    IF i > Len(constraints) THEN assignment
    ELSE IF ~IsVariableEquality(constraints[i])
         THEN EqualityAssignment(constraints, i + 1, assignment)
         ELSE LET left  == VariableName(constraints[i].left)
                  right == VariableName(constraints[i].right)
              IN  EqualityAssignment(constraints, i + 1,
                      IF left \in DOMAIN assignment
                      THEN Insert(assignment, right, assignment[left])
                      ELSE IF right \in DOMAIN assignment
                           THEN Insert(assignment, left, assignment[right])
                           ELSE Insert(assignment, left, constraints[i].right))

\* ChaseRule::apply_equality
ApplyEquality(rule) ==
    RuleApplyAssignment(
        [rule EXCEPT !.constraints = SelectSeq(@, LAMBDA c : ~IsVariableEquality(c))],
        EqualityAssignment(rule.constraints, 1, <<>>))

\* ConstraintCategories::new, with the counter of flatten_atoms.
ConstraintCategoriesNew(num_negative_body) ==
    [positive_constructors |-> <<>>,
     positive_constraints |-> <<>>,
     negative_constraints |-> [i \in 1..num_negative_body |-> <<>>],
     rule_next_variable_id |-> 0]

RECURSIVE FlattenHeadTerms(_, _, _)
\* flatten_atoms, head: a term that is not primitive becomes a fresh
\* _CONSTRUCT_ variable with a constructor.  Yields the terms and the state.
FlattenHeadTerms(terms, i, st) ==
    IF i > Len(terms) THEN [terms |-> terms, st |-> st]
    ELSE IF IsPrimitive(terms[i]) THEN FlattenHeadTerms(terms, i + 1, st)
    ELSE LET new_variable == GenerateIncrementingVariableName(CONSTRUCT_VARIABLE_PREFIX,
                                                            st.rule_next_variable_id)
         IN  FlattenHeadTerms([terms EXCEPT ![i] = TermVariable(new_variable)], i + 1,
                 [st EXCEPT !.rule_next_variable_id = @ + 1,
                            !.positive_constructors =
                                Append(@, [variable |-> new_variable, term |-> terms[i]])])

RECURSIVE FlattenHead(_, _, _)
FlattenHead(head, k, st) ==
    IF k > Len(head) THEN [head |-> head, st |-> st]
    ELSE LET r == FlattenHeadTerms(head[k].terms, 1, st)
         IN  FlattenHead([head EXCEPT ![k] = Atom(@.predicate, r.terms)], k + 1, r.st)

\* A variant of the test of the body loop that keeps every variable, also
\* one that the atom already holds.
KeepsTermAnyVariable(term, current_variables) == IsVariable(term)

\* flatten_atoms, body: a term is kept when it is a variable that the atom
\* does not hold yet.
KeepsTerm(term, current_variables) ==
    IF IsVariable(term) THEN VariableName(term) \notin current_variables ELSE FALSE

RECURSIVE FlattenBodyTerms(_, _, _, _, _, _)
\* flatten_atoms, body: every other term becomes a fresh _EQUALITY_ variable
\* that an equality ties to the term, in the positive constraints or in the
\* constraints of the negative atom.
FlattenBodyTerms(terms, i, current_variables, is_positive, negative_index, st) ==
    IF i > Len(terms) THEN [terms |-> terms, st |-> st]
    ELSE IF KeepsTerm(terms[i], current_variables)
         THEN FlattenBodyTerms(terms, i + 1, current_variables \cup {VariableName(terms[i])},
                               is_positive, negative_index, st)
         ELSE LET new_variable == GenerateIncrementingVariableName(EQUALITY_VARIABLE_PREFIX,
                                                                 st.rule_next_variable_id)
                  new_term == TermVariable(new_variable)
                  equals   == Constraint("Equals", new_term, terms[i])
              IN  FlattenBodyTerms([terms EXCEPT ![i] = new_term], i + 1, current_variables,
                      is_positive, negative_index,
                      IF is_positive
                      THEN [st EXCEPT !.rule_next_variable_id = @ + 1,
                                      !.positive_constraints = Append(@, equals)]
                      ELSE [st EXCEPT !.rule_next_variable_id = @ + 1,
                                      !.negative_constraints[negative_index] = Append(@, equals)])

RECURSIVE FlattenBody(_, _, _, _)
FlattenBody(body, k, negative_index, st) ==
    IF k > Len(body) THEN [body |-> body, st |-> st]
    ELSE LET index == IF body[k].positive THEN negative_index ELSE negative_index + 1
             r == FlattenBodyTerms(body[k].atom.terms, 1, {}, body[k].positive, index, st)
         IN  FlattenBody([body EXCEPT ![k] = Literal(@.positive, Atom(@.atom.predicate, r.terms))],
                         k + 1, index, r.st)

\* Rule::num_negative_body
NumNegativeBody(rule) == Cardinality({k \in DOMAIN rule.body : ~rule.body[k].positive})

\* ChaseRule::flatten_atoms, for rules without aggregates: the rule after
\* the call and the constraints it returns.
FlattenAtoms(rule) ==
    LET h == FlattenHead(rule.head, 1, ConstraintCategoriesNew(NumNegativeBody(rule)))
        b == FlattenBody(rule.body, 1, 0, h.st)
    IN  [rule |-> Rule(h.head, b.body, rule.constraints), new_constraints |-> b.st]

\* PrimitiveAtom::from_flat_atom
PrimitiveAtomFromFlatAtom(atom) == atom

\* VariableAtom::from_flat_atom
VariableAtomFromFlatAtom(atom) ==
    VariableAtom(atom.predicate, [i \in DOMAIN atom.terms |-> VariableName(atom.terms[i])])

\* from_flat_atom reaches its unreachable! when a term is not a variable.
FromFlatAtomPanics(atom) == \E i \in DOMAIN atom.terms : ~IsVariable(atom.terms[i])

\* Rule::safe_variables: the variables of the positive body.
SafeVariables(rule) ==
    UNION {{VariableName(rule.body[k].atom.terms[i]) : i \in DOMAIN rule.body[k].atom.terms} :
           k \in {j \in DOMAIN rule.body : rule.body[j].positive}}

\* The variables of a constraint, left before right.
ConstraintVariableSeq(constraint) ==
    SelectSeq(<<constraint.left, constraint.right>>, LAMBDA t : t[1] # "Ground")

RECURSIVE NegativeVariables(_, _, _, _)
\* seperate_constraints: for a variable of a negative atom that is not
\* derived, the index of the last negative atom that holds it.
NegativeVariables(negative_body, body_index, derived_variables, map) ==
    IF body_index > Len(negative_body) THEN map
    ELSE LET vs == {negative_body[body_index].variables[i] :
                        i \in DOMAIN negative_body[body_index].variables}
                   \ derived_variables
         IN  NegativeVariables(negative_body, body_index + 1, derived_variables,
                 [v \in (DOMAIN map) \cup vs |-> IF v \in vs THEN body_index ELSE map[v]])

RECURSIVE PushNegative(_, _, _, _, _)
\* seperate_constraints: the constraint is pushed once for each of its
\* variables that a negative atom holds.
PushNegative(constraint, variables, i, negative_variables, negative_constraints) ==
    IF i > Len(variables) THEN negative_constraints
    ELSE PushNegative(constraint, variables, i + 1, negative_variables,
             IF VariableName(variables[i]) \in DOMAIN negative_variables
             THEN [negative_constraints EXCEPT
                      ![negative_variables[VariableName(variables[i])]] = Append(@, constraint)]
             ELSE negative_constraints)

\* Constraint::has_form_assignment: the constraint is ?V = term.
HasFormAssignment(constraint) == constraint.op = "Equals" /\ IsVariable(constraint.left)

RECURSIVE DerivePass(_, _, _)
\* compute_derived_variables, one pass of the for loop over the constraints
\* of a rule without aggregates: an assignment to a variable that is not
\* derived, of a term whose variables are derived, becomes a positive
\* constructor.
DerivePass(rule, constraint_index, st) ==
    IF constraint_index > Len(rule.constraints) THEN st
    ELSE LET constraint == rule.constraints[constraint_index]
         IN  DerivePass(rule, constraint_index + 1,
                 IF constraint_index \in st.assigned_constraints THEN st
                 ELSE IF ~HasFormAssignment(constraint) THEN st
                 ELSE IF VariableName(constraint.left) \in st.derived_variables THEN st
                 ELSE IF TermVariables(constraint.right) \subseteq st.derived_variables
                      THEN [derived_variables |->
                                st.derived_variables \cup {VariableName(constraint.left)},
                            constraints |->
                                [st.constraints EXCEPT !.positive_constructors =
                                    Append(@, [variable |-> VariableName(constraint.left),
                                               term |-> constraint.right])],
                            assigned_constraints |->
                                st.assigned_constraints \cup {constraint_index}]
                      ELSE st)

RECURSIVE DeriveLoop(_, _)
\* compute_derived_variables, the while loop: passes until one assigns no
\* constraint.
DeriveLoop(rule, st) ==
    LET next == DerivePass(rule, 1, st)
    IN  IF next.assigned_constraints = st.assigned_constraints THEN next
        ELSE DeriveLoop(rule, next)

\* ChaseRule::compute_derived_variables
ComputeDerivedVariables(rule, constraints) ==
    DeriveLoop(rule, [derived_variables |-> SafeVariables(rule),
                      constraints |-> constraints,
                      assigned_constraints |-> {}])

RECURSIVE SeperateLoop(_, _, _, _)
\* seperate_constraints, the loop over the constraints that are not assigned
\* yet: a constraint on derived variables is a positive constraint; any
\* other one goes to the negative atoms that hold its variables.
SeperateLoop(rule, constraint_index, negative_variables, st) ==
    IF constraint_index > Len(rule.constraints) THEN st
    ELSE LET constraint == rule.constraints[constraint_index]
             variables  == ConstraintVariableSeq(constraint)
         IN  SeperateLoop(rule, constraint_index + 1, negative_variables,
                 IF constraint_index \in st.assigned_constraints THEN st
                 ELSE IF \A i \in DOMAIN variables :
                            VariableName(variables[i]) \in st.derived_variables
                 THEN [st EXCEPT !.constraints.positive_constraints = Append(@, constraint),
                                 !.assigned_constraints = @ \cup {constraint_index}]
                 ELSE IF \E i \in DOMAIN variables :
                            VariableName(variables[i]) \in DOMAIN negative_variables
                 THEN [st EXCEPT !.constraints.negative_constraints =
                                     PushNegative(constraint, variables, 1, negative_variables, @),
                                 !.assigned_constraints = @ \cup {constraint_index}]
                 ELSE st)

\* ChaseRule::seperate_constraints: the constraints by category, the derived
\* variables and the indices of the constraints that were assigned.
SeperateConstraints(rule, negative_body, constraints) ==
    LET derived == ComputeDerivedVariables(rule, constraints)
    IN  SeperateLoop(rule, 1,
                     NegativeVariables(negative_body, 1, derived.derived_variables, <<>>),
                     derived)

\* The atoms of the positive (negative) literals, in their order.
BodyAtoms(rule, positive) ==
    LET literals == SelectSeq(rule.body, LAMBDA l : l.positive = positive)
    IN  [k \in DOMAIN literals |-> literals[k].atom]

\* ChaseRule::try_from
TryFrom(input) ==
    LET flat == FlattenAtoms(ApplyEquality(input))
        positive == BodyAtoms(flat.rule, TRUE)
        negative == BodyAtoms(flat.rule, FALSE)
        negative_body == [k \in DOMAIN negative |-> VariableAtomFromFlatAtom(negative[k])]
        constraints == SeperateConstraints(flat.rule, negative_body,
                                           flat.new_constraints).constraints
    IN  [head |-> [k \in DOMAIN flat.rule.head |-> PrimitiveAtomFromFlatAtom(flat.rule.head[k])],
         positive_body |-> [k \in DOMAIN positive |-> VariableAtomFromFlatAtom(positive[k])],
         positive_constructors |-> constraints.positive_constructors,
         positive_constraints |-> constraints.positive_constraints,
         negative_body |-> negative_body,
         negative_constraints |-> constraints.negative_constraints]

NoRule == Rule(<<>>, <<>>, <<>>)

RuleIdle ==
    /\ source_rule = NoRule
    /\ substituted = NoRule
    /\ chase_rule = <<>>
    /\ rpc = "idle"

(***************************************************************************)
(* The trie state machine: build a trie from rows, then enumerate its      *)
(* root-to-leaf paths depth-first with down, next and up, trying the       *)
(* storage types in their fixed order on every layer.                      *)
(***************************************************************************)
TrieIdle ==
    /\ trie = <<>>
    /\ path_types = <<>>
    /\ column_scans = <<>>
    /\ mode = "idle"
    /\ try_type = Id32
    /\ out = <<>>
    /\ tpc = "init"

InitBuild == buffer \in Buffers(MaxRows) /\ TrieIdle /\ DictIdle /\ ChaseIdle /\ MatIdle /\ GictIdle /\ NavIdle /\ RuleIdle /\ LookupColumnIdle /\ BuildersIdle /\ DsvIdle /\ IndexIdle /\ LoopIdle /\ ConversionIdle /\ OperationIdle

InitScan == buffer \in Buffers(MaxScanRows) /\ TrieIdle /\ DictIdle /\ ChaseIdle /\ MatIdle /\ GictIdle /\ NavIdle /\ RuleIdle /\ LookupColumnIdle /\ BuildersIdle /\ DsvIdle /\ IndexIdle /\ LoopIdle /\ ConversionIdle /\ OperationIdle

\* Trie::from_rows followed by Trie::iter.
BuildTrie ==
    /\ tpc = "init"
    /\ trie' = FromRows(buffer)
    /\ column_scans' = TrieIter(trie')
    /\ path_types' = <<>>
    /\ try_type' = Id32
    /\ mode' = IF Arity(trie') = 0 THEN "idle" ELSE "down"
    /\ tpc' = IF Arity(trie') = 0 THEN "done" ELSE "scan"
    /\ UNCHANGED <<buffer, out, dictVars, chaseVars, matVars, gictVars, navVars, ruleVars, lookupVars, buildersVars, dsvVars, indexVars, loopVars, conversionVars, operationVars>>

\* TrieScanGeneric::down(try_type)
EnumDown ==
    /\ tpc = "scan" /\ mode = "down"
    /\ DownLegal(path_types, column_scans)
    /\ column_scans' = DownScans(trie, path_types, column_scans, try_type)
    /\ path_types' = Append(path_types, try_type)
    /\ mode' = "next"
    /\ UNCHANGED <<buffer, trie, try_type, out, tpc, dictVars, chaseVars, matVars, gictVars, navVars, ruleVars, lookupVars, buildersVars, dsvVars, indexVars, loopVars, conversionVars, operationVars>>

\* next on the scan of the current layer, for the type of the path.
EnumNext ==
    /\ tpc = "scan" /\ mode = "next"
    /\ LET layer == Len(path_types)
           t     == Last(path_types)
           rb    == RainbowNext(column_scans[layer], t)
           cs    == [column_scans EXCEPT ![layer] = rb]
       IN  /\ column_scans' = cs
           /\ mode' = IF rb[t].pos = None THEN "up"
                      ELSE IF layer = Arity(trie) THEN "next" ELSE "down"
           /\ try_type' = Id32
           /\ out' = IF rb[t].pos # None /\ layer = Arity(trie)
                     THEN Append(out, CurrentRow(trie, path_types, cs))
                     ELSE out
    /\ UNCHANGED <<buffer, trie, path_types, tpc, dictVars, chaseVars, matVars, gictVars, navVars, ruleVars, lookupVars, buildersVars, dsvVars, indexVars, loopVars, conversionVars, operationVars>>

\* TrieScanGeneric::up, after the scan of the current layer and type ended:
\* go on with the next storage type, or with the parent layer.
EnumUp ==
    /\ tpc = "scan" /\ mode = "up"
    /\ path_types # <<>>
    /\ path_types' = Pop(path_types)
    /\ LET t == Last(path_types)
       IN  /\ try_type' = IF t < NUM_STORAGETYPES THEN t + 1 ELSE Id32
           /\ mode' = IF t < NUM_STORAGETYPES THEN "down"
                      ELSE IF Len(path_types) = 1 THEN "idle" ELSE "next"
           /\ tpc' = IF t = NUM_STORAGETYPES /\ Len(path_types) = 1 THEN "done" ELSE "scan"
    /\ UNCHANGED <<buffer, trie, column_scans, out, dictVars, chaseVars, matVars, gictVars, navVars, ruleVars, lookupVars, buildersVars, dsvVars, indexVars, loopVars, conversionVars, operationVars>>

NextBuild == BuildTrie

NextScan == BuildTrie \/ EnumDown \/ EnumNext \/ EnumUp

SpecBuild == InitBuild /\ [][NextBuild]_vars

SpecScan == InitScan /\ [][NextScan]_vars

(***************************************************************************)
(* Navigation: any sequence of down, next and up on the scan of a trie; a  *)
(* panic ends it.                                                          *)
(***************************************************************************)
MaxCalls == 5

\* The storage types down is called with: the two the values have, and one
\* no value has.
NextTypes == {Id32, Id64, Int64}

InitNavigate ==
    /\ buffer \in Buffers(MaxScanRows)
    /\ TrieIdle /\ DictIdle /\ ChaseIdle /\ MatIdle /\ GictIdle /\ NavIdle /\ RuleIdle /\ LookupColumnIdle /\ BuildersIdle /\ DsvIdle /\ IndexIdle /\ LoopIdle /\ ConversionIdle /\ OperationIdle

\* Trie::from_rows followed by Trie::iter.
NavIter ==
    /\ tpc = "init"
    /\ trie' = FromRows(buffer)
    /\ column_scans' = TrieIter(trie')
    /\ path_types' = <<>>
    /\ tpc' = "scan"
    /\ UNCHANGED <<buffer, mode, try_type, out, dictVars, chaseVars, matVars, gictVars, navVars, ruleVars, lookupVars, buildersVars, dsvVars, indexVars, loopVars, conversionVars, operationVars>>

\* TrieScanGeneric::down(next_type)
NavDown ==
    /\ tpc = "scan" /\ calls < MaxCalls
    /\ \E next_type \in NextTypes :
          /\ nav' = [op |-> "down", next_type |-> next_type,
                     outcome |-> IF DownPanics(trie, path_types, column_scans)
                                 THEN "panic" ELSE "ok",
                     path_types |-> path_types, column_scans |-> column_scans]
          /\ IF DownPanics(trie, path_types, column_scans)
             THEN /\ tpc' = "panic"
                  /\ UNCHANGED <<path_types, column_scans, downs>>
             ELSE /\ column_scans' = DownScans(trie, path_types, column_scans, next_type)
                  /\ path_types' = Append(path_types, next_type)
                  /\ downs' = downs + 1
                  /\ tpc' = tpc
    /\ calls' = calls + 1
    /\ UNCHANGED <<buffer, trie, mode, try_type, out, ups, dictVars, chaseVars, matVars, gictVars, ruleVars, lookupVars, buildersVars, dsvVars, indexVars, loopVars, conversionVars, operationVars>>

\* next on the scan of the current layer, for the type of the path.
NavNext ==
    /\ tpc = "scan" /\ calls < MaxCalls
    /\ path_types # <<>>
    /\ column_scans' = [column_scans EXCEPT
                           ![Len(path_types)] = RainbowNext(@, Last(path_types))]
    /\ nav' = [op |-> "next", next_type |-> Last(path_types), outcome |-> "ok",
               path_types |-> path_types, column_scans |-> column_scans]
    /\ calls' = calls + 1
    /\ UNCHANGED <<buffer, trie, path_types, mode, try_type, out, tpc, downs, ups,
                   dictVars, chaseVars, matVars, gictVars, ruleVars, lookupVars, buildersVars, dsvVars, indexVars, loopVars, conversionVars, operationVars>>

\* TrieScanGeneric::up
NavUp ==
    /\ tpc = "scan" /\ calls < MaxCalls
    /\ nav' = [op |-> "up", next_type |-> Id32,
               outcome |-> IF UpPanics(path_types) THEN "panic" ELSE "ok",
               path_types |-> path_types, column_scans |-> column_scans]
    /\ IF UpPanics(path_types)
       THEN /\ tpc' = "panic"
            /\ UNCHANGED <<path_types, column_scans, ups>>
       ELSE /\ path_types' = Pop(path_types)
            /\ column_scans' = UpScans(path_types, column_scans)
            /\ ups' = ups + 1
            /\ tpc' = tpc
    /\ calls' = calls + 1
    /\ UNCHANGED <<buffer, trie, mode, try_type, out, downs,
                   dictVars, chaseVars, matVars, gictVars, ruleVars, lookupVars, buildersVars, dsvVars, indexVars, loopVars, conversionVars, operationVars>>

NextNavigate == NavIter \/ NavDown \/ NavNext \/ NavUp

SpecNavigate == InitNavigate /\ [][NextNavigate]_vars

(***************************************************************************)
(* Materializing a trie scan                                               *)
(***************************************************************************)
\* The sorted buffers of at most k rows of n columns.
BuffersOfArity(n, k) ==
    UNION {{b \in [1..m -> [1..n -> Values]] : IsSortedBuffer(b)} : m \in 0..k}

InitMaterialize ==
    /\ scan_arity \in Arities
    /\ buffer \in BuffersOfArity(scan_arity, MaxRows)
    /\ cut_layers \in 0..(scan_arity - 1)
    /\ mat = <<>>
    /\ mpc = "init"
    /\ TrieIdle
    /\ DictIdle
    /\ ChaseIdle
    /\ GictIdle
    /\ NavIdle
    /\ RuleIdle
    /\ LookupColumnIdle
    /\ BuildersIdle
    /\ DsvIdle /\ IndexIdle /\ LoopIdle /\ ConversionIdle /\ OperationIdle

\* Trie::from_trie_scan over a complete scan that streams buffer.
MaterializeScan ==
    /\ mpc = "init"
    /\ mat' = FromTrieScan(scan_arity, buffer, cut_layers)
    /\ mpc' = "done"
    /\ UNCHANGED <<scan_arity, cut_layers, trieVars, dictVars, chaseVars, gictVars, navVars, ruleVars, lookupVars, buildersVars, dsvVars, indexVars, loopVars, conversionVars, operationVars>>

NextMaterialize == MaterializeScan

SpecMaterialize == InitMaterialize /\ [][NextMaterialize]_vars

(***************************************************************************)
(* materialize over a partial trie scan                                    *)
(***************************************************************************)
PathValues == {1, 2}

\* The prefixes of at most n values.
AllPaths(n) == UNION {[1..k -> PathValues] : k \in 1..n}

\* A scan can only be positioned below a value it is positioned on.
PrefixClosed(ps) == \A p \in ps : Len(p) > 1 => Pop(p) \in ps

InitGict ==
    /\ target_arity \in Arities
    /\ paths \in {ps \in SUBSET AllPaths(target_arity) : PrefixClosed(ps)}
    /\ result_columns = <<>>
    /\ gpc = "init"
    /\ buffer = <<>>
    /\ TrieIdle
    /\ DictIdle
    /\ ChaseIdle
    /\ MatIdle
    /\ NavIdle
    /\ RuleIdle
    /\ LookupColumnIdle
    /\ BuildersIdle
    /\ DsvIdle /\ IndexIdle /\ LoopIdle /\ ConversionIdle /\ OperationIdle

\* materialize(trie_scan)
MaterializeTrieScan ==
    /\ gpc = "init"
    /\ result_columns' = Materialize(paths, target_arity)
    /\ gpc' = "done"
    /\ UNCHANGED <<paths, target_arity, trieVars, dictVars, chaseVars, matVars, navVars, ruleVars, lookupVars, buildersVars, dsvVars, indexVars, loopVars, conversionVars, operationVars>>

NextGict == MaterializeTrieScan

SpecGict == InitGict /\ [][NextGict]_vars

\* materialize has made its first down and is before the first iteration.
InitMaterializeLoop ==
    /\ target_arity \in Arities
    /\ paths \in {ps \in SUBSET AllPaths(target_arity) : PrefixClosed(ps)}
    /\ result_columns = <<>>
    /\ gpc = "loop"
    /\ materialize_state = MaterializeStart(target_arity)
    /\ materialize_iterations = 0
    /\ materialize_downs = 0
    /\ materialize_ups = 0
    /\ materialize_reads = <<>>
    /\ lpc = "loop"
    /\ buffer = <<>>
    /\ TrieIdle /\ DictIdle /\ ChaseIdle /\ MatIdle /\ NavIdle /\ RuleIdle
    /\ LookupColumnIdle /\ BuildersIdle /\ DsvIdle /\ IndexIdle /\ ConversionIdle /\ OperationIdle

\* One iteration of the loop of materialize.
MaterializeIterate ==
    /\ lpc = "loop"
    /\ LET iteration == MaterializeIteration(paths, target_arity, materialize_state)
       IN  /\ materialize_state' = iteration.state
           /\ materialize_iterations' = materialize_iterations + 1
           /\ materialize_downs' = materialize_downs + (IF iteration.call = "down" THEN 1 ELSE 0)
           /\ materialize_ups' = materialize_ups + (IF iteration.call = "up" THEN 1 ELSE 0)
           /\ materialize_reads' = IF IsSome(iteration.read)
                                   THEN Append(materialize_reads, Unwrap(iteration.read))
                                   ELSE materialize_reads
           /\ lpc' = IF iteration.break THEN "done" ELSE "loop"
    /\ UNCHANGED <<trieVars, dictVars, chaseVars, matVars, gictVars, navVars, ruleVars, lookupVars, buildersVars, dsvVars, indexVars, conversionVars, operationVars>>

NextMaterializeLoop == MaterializeIterate

SpecMaterializeLoop == InitMaterializeLoop /\ [][NextMaterializeLoop]_vars

(***************************************************************************)
(* Converting ground terms                                                 *)
(***************************************************************************)
\* The longest string of a term.
MaxStringLen == 2

\* The largest absolute value of a numeric literal.
MaxLiteral == 1

\* A digit, the signs and a letter.
Symbols == {"1", "-", "+", "x"}

TermStrings == UNION {[1..n -> Symbols] : n \in 0..MaxStringLen}

Datatypes == {<<"xsd:string">>, <<"xsd:double">>, <<"xsd:decimal">>, <<"xsd:integer">>,
              <<"xsd:boolean">>}

\* The ground terms: constants, numeric literals, string literals and RDF
\* literals.
GroundTerms ==
    {[term |-> "Constant", identifier |-> v] : v \in TermStrings \ {<<>>}}
    \cup {[term |-> "Integer", i |-> i] : i \in (0 - MaxLiteral)..MaxLiteral}
    \cup {[term |-> "Decimal", a |-> a, b |-> b] :
              a \in (0 - MaxLiteral)..MaxLiteral, b \in 0..MaxLiteral}
    \cup {[term |-> "Double", d |-> d] : d \in (0 - MaxLiteral)..MaxLiteral}
    \cup {[term |-> "StringLiteral", s |-> v] : v \in TermStrings}
    \cup {[term |-> "LanguageString", value |-> v, tag |-> <<"en">>] : v \in TermStrings}
    \cup {[term |-> "DatatypeValue", value |-> v, datatype |-> d] :
              v \in TermStrings, d \in Datatypes}

InitConversion ==
    /\ logical_type \in LogicalTypeEnum
    /\ ground_term \in GroundTerms
    /\ data_value = <<>>
    /\ gtpc = "init"
    /\ buffer = <<>>
    /\ TrieIdle /\ DictIdle /\ ChaseIdle /\ MatIdle /\ GictIdle /\ NavIdle /\ RuleIdle
    /\ LookupColumnIdle /\ BuildersIdle /\ DsvIdle /\ IndexIdle /\ LoopIdle /\ OperationIdle

\* logical_type.ground_term_to_data_value_t(ground_term)
ConvertGroundTerm ==
    /\ gtpc = "init"
    /\ data_value' = GroundTermToDataValueT(logical_type, ground_term)
    /\ gtpc' = "done"
    /\ UNCHANGED <<logical_type, ground_term, trieVars, dictVars, chaseVars, matVars, gictVars, navVars, ruleVars, lookupVars, buildersVars, dsvVars, indexVars, loopVars, operationVars>>

NextConversion == ConvertGroundTerm

SpecConversion == InitConversion /\ [][NextConversion]_vars

(***************************************************************************)
(* Constructing unary operations from names                                *)
(***************************************************************************)
\* The names of the operations, and names that differ from them in case or
\* are no names of operations.
OperationNames ==
    {UnaryOperationName(op) : op \in UnaryOperation}
    \cup {"isNumeric", "Abs", "sqrt", "ucase", "lcase", "Minus", "isnumeric", "UPPER", ""}

InitOperation ==
    /\ operation_name \in OperationNames
    /\ constructed = <<>>
    /\ printed_name = ""
    /\ reconstructed = <<>>
    /\ opc = "init"
    /\ buffer = <<>>
    /\ TrieIdle /\ DictIdle /\ ChaseIdle /\ MatIdle /\ GictIdle /\ NavIdle /\ RuleIdle
    /\ LookupColumnIdle /\ BuildersIdle /\ DsvIdle /\ IndexIdle /\ LoopIdle /\ ConversionIdle

\* UnaryOperation::construct_from_name(operation_name)
ConstructOperation ==
    /\ opc = "init"
    /\ constructed' = ConstructFromName(operation_name)
    /\ opc' = "constructed"
    /\ UNCHANGED <<operation_name, printed_name, reconstructed, trieVars, dictVars, chaseVars, matVars, gictVars, navVars, ruleVars, lookupVars, buildersVars, dsvVars, indexVars, loopVars, conversionVars>>

\* op.name() of the operation that was constructed
NameOperation ==
    /\ opc = "constructed"
    /\ IsOk(constructed)
    /\ printed_name' = UnaryOperationName(constructed[2])
    /\ opc' = "named"
    /\ UNCHANGED <<operation_name, constructed, reconstructed, trieVars, dictVars, chaseVars, matVars, gictVars, navVars, ruleVars, lookupVars, buildersVars, dsvVars, indexVars, loopVars, conversionVars>>

\* UnaryOperation::construct_from_name(op.name())
ReconstructOperation ==
    /\ opc = "named"
    /\ reconstructed' = ConstructFromName(printed_name)
    /\ opc' = "done"
    /\ UNCHANGED <<operation_name, constructed, printed_name, trieVars, dictVars, chaseVars, matVars, gictVars, navVars, ruleVars, lookupVars, buildersVars, dsvVars, indexVars, loopVars, conversionVars>>

NextOperation == ConstructOperation \/ NameOperation \/ ReconstructOperation

SpecOperation == InitOperation /\ [][NextOperation]_vars

(***************************************************************************)
(* Translating rules                                                       *)
(***************************************************************************)
\* The variables ?x1 .. ?x4 of the rules.
RuleVariables == {<<"x", 1>>, <<"x", 2>>, <<"x", 3>>, <<"x", 4>>}

\* The terms of the body atoms of the rules that are translated.
BodyTerms == {TermVariable(<<"x", 1>>), TermVariable(<<"x", 2>>), TermGround(1)}

\* The terms of their head atoms.
HeadTerms == {TermVariable(<<"x", 1>>), TermGround(1), TermBinary(<<"x", 1>>)}

BodyAtomsOf(predicate) == {Atom(predicate, <<t1, t2>>) : t1 \in BodyTerms, t2 \in BodyTerms}

\* One positive literal, alone or followed by a positive or negative one.
Bodies ==
    {<<Literal(TRUE, a)>> : a \in BodyAtomsOf("p")}
    \cup {<<Literal(TRUE, a), Literal(sign, b)>> :
             a \in BodyAtomsOf("p"), sign \in BOOLEAN, b \in BodyAtomsOf("q")}

ConstraintLists ==
    {<<>>,
     <<Constraint("Equals", TermVariable(<<"x", 1>>), TermVariable(<<"x", 2>>))>>,
     <<Constraint("Unequals", TermVariable(<<"x", 1>>), TermVariable(<<"x", 2>>))>>}

\* The variables of the atoms of the literals with one of the given signs.
BodyVariableNames(r, signs) ==
    UNION {UNION {TermVariables(r.body[k].atom.terms[i]) : i \in DOMAIN r.body[k].atom.terms} :
           k \in {j \in DOMAIN r.body : r.body[j].positive \in signs}}

\* The rules that reach the translation: the variables of the head occur
\* in the positive body, those of the constraints in the body.
IsSafeRule(r) ==
    /\ \A k \in DOMAIN r.head : \A i \in DOMAIN r.head[k].terms :
          TermVariables(r.head[k].terms[i]) \subseteq BodyVariableNames(r, {TRUE})
    /\ \A k \in DOMAIN r.constraints :
          TermVariables(r.constraints[k].left) \cup TermVariables(r.constraints[k].right)
              \subseteq BodyVariableNames(r, BOOLEAN)

InitTryFrom ==
    /\ source_rule \in {r \in {Rule(<<Atom("h", <<t>>)>>, b, c) :
                            t \in HeadTerms, b \in Bodies, c \in ConstraintLists} :
                  IsSafeRule(r)}
    /\ substituted = NoRule
    /\ chase_rule = <<>>
    /\ rpc = "init"
    /\ buffer = <<>>
    /\ TrieIdle /\ DictIdle /\ ChaseIdle /\ MatIdle /\ GictIdle /\ NavIdle
    /\ LookupColumnIdle /\ BuildersIdle /\ DsvIdle /\ IndexIdle /\ LoopIdle /\ ConversionIdle /\ OperationIdle

\* ChaseRule::try_from(rule)
TryFromRule ==
    /\ rpc = "init"
    /\ substituted' = ApplyEquality(source_rule)
    /\ chase_rule' = TryFrom(source_rule)
    /\ rpc' = "done"
    /\ UNCHANGED <<source_rule, trieVars, dictVars, chaseVars, matVars, gictVars, navVars, lookupVars, buildersVars, dsvVars, indexVars, loopVars, conversionVars, operationVars>>

NextTryFrom == TryFromRule

SpecTryFrom == InitTryFrom /\ [][NextTryFrom]_vars

\* The constraints of the rules with assignments: ?x3 = f(?x1),
\* ?x4 = f(?x3), ?x3 != ?x4, ?x1 != ?x2 and ?x3 != ?x1.
ConstraintPool ==
    {Constraint("Equals", TermVariable(<<"x", 3>>), TermBinary(<<"x", 1>>)),
     Constraint("Equals", TermVariable(<<"x", 4>>), TermBinary(<<"x", 3>>)),
     Constraint("Unequals", TermVariable(<<"x", 3>>), TermVariable(<<"x", 4>>)),
     Constraint("Unequals", TermVariable(<<"x", 1>>), TermVariable(<<"x", 2>>)),
     Constraint("Unequals", TermVariable(<<"x", 3>>), TermVariable(<<"x", 1>>))}

\* The longest list of constraints of such a rule.
MaxConstraints == 2

\* The lists of different constraints.
AssignmentConstraintLists ==
    {c \in UNION {[1..n -> ConstraintPool] : n \in 0..MaxConstraints} :
        \A i, j \in DOMAIN c : i # j => c[i] # c[j]}

\* p(?x1, ?x2), alone or with one or two negated atoms over ?x1 .. ?x4.
AssignmentBodies ==
    LET p == Literal(TRUE, Atom("p", <<TermVariable(<<"x", 1>>), TermVariable(<<"x", 2>>)>>))
        q(t1, t2) == Literal(FALSE, Atom("q", <<TermVariable(t1), TermVariable(t2)>>))
        s(t1, t2) == Literal(FALSE, Atom("s", <<TermVariable(t1), TermVariable(t2)>>))
    IN  {<<p>>,
         <<p, q(<<"x", 3>>, <<"x", 4>>)>>,
         <<p, q(<<"x", 1>>, <<"x", 3>>)>>,
         <<p, q(<<"x", 1>>, <<"x", 3>>), s(<<"x", 2>>, <<"x", 4>>)>>}

AssignmentHeadTerms ==
    {TermVariable(<<"x", 1>>), TermBinary(<<"x", 1>>), TermVariable(<<"x", 3>>),
     TermBinary(<<"x", 3>>), TermVariable(<<"x", 4>>)}

\* The variables that the rule binds: those of the positive body and those
\* that its assignments define from them.
BoundVariableNames(r) ==
    ComputeDerivedVariables(r, ConstraintCategoriesNew(0)).derived_variables

\* The rules with assignments that reach the translation: the variables of
\* the head are bound, those of a constraint are bound or occur in the body.
IsSafeAssignmentRule(r) ==
    /\ \A k \in DOMAIN r.head : \A i \in DOMAIN r.head[k].terms :
          TermVariables(r.head[k].terms[i]) \subseteq BoundVariableNames(r)
    /\ \A k \in DOMAIN r.constraints :
          TermVariables(r.constraints[k].left) \cup TermVariables(r.constraints[k].right)
              \subseteq BoundVariableNames(r) \cup BodyVariableNames(r, BOOLEAN)

InitAssignments ==
    /\ source_rule \in {r \in {Rule(<<Atom("h", <<t>>)>>, b, c) :
                            t \in AssignmentHeadTerms, b \in AssignmentBodies,
                            c \in AssignmentConstraintLists} :
                  IsSafeAssignmentRule(r)}
    /\ substituted = NoRule
    /\ chase_rule = <<>>
    /\ rpc = "init"
    /\ buffer = <<>>
    /\ TrieIdle /\ DictIdle /\ ChaseIdle /\ MatIdle /\ GictIdle /\ NavIdle
    /\ LookupColumnIdle /\ BuildersIdle /\ DsvIdle /\ IndexIdle /\ LoopIdle /\ ConversionIdle /\ OperationIdle

SpecAssignments == InitAssignments /\ [][NextTryFrom]_vars

\* The equalities ?X = ?Y between two different variables.
VariableEqualities ==
    {Constraint("Equals", TermVariable(xy[1]), TermVariable(xy[2])) :
        xy \in {p \in RuleVariables \X RuleVariables : p[1] # p[2]}}

MaxEqualities == 2

\* At most MaxEqualities equalities, alone or followed by ?x1 != ?x2.
EqualityLists ==
    LET eqs == UNION {[1..n -> VariableEqualities] : n \in 0..MaxEqualities}
    IN  eqs \cup {Append(c, Constraint("Unequals", TermVariable(<<"x", 1>>),
                                       TermVariable(<<"x", 2>>))) : c \in eqs}

\* h(?x1, ?x2 + 1, ?x3, ?x4) :- p(?x1, ?x2), q(?x3, ?x4), constraints.
EqualityRule(constraints) ==
    Rule(<<Atom("h", <<TermVariable(<<"x", 1>>), TermBinary(<<"x", 2>>),
                      TermVariable(<<"x", 3>>), TermVariable(<<"x", 4>>)>>)>>,
         <<Literal(TRUE, Atom("p", <<TermVariable(<<"x", 1>>), TermVariable(<<"x", 2>>)>>)),
           Literal(TRUE, Atom("q", <<TermVariable(<<"x", 3>>), TermVariable(<<"x", 4>>)>>))>>,
         constraints)

InitEquality ==
    /\ source_rule \in {EqualityRule(c) : c \in EqualityLists}
    /\ substituted = NoRule
    /\ chase_rule = <<>>
    /\ rpc = "init"
    /\ buffer = <<>>
    /\ TrieIdle /\ DictIdle /\ ChaseIdle /\ MatIdle /\ GictIdle /\ NavIdle
    /\ LookupColumnIdle /\ BuildersIdle /\ DsvIdle /\ IndexIdle /\ LoopIdle /\ ConversionIdle /\ OperationIdle

\* ChaseRule::apply_equality(rule)
ApplyEqualityRule ==
    /\ rpc = "init"
    /\ substituted' = ApplyEquality(source_rule)
    /\ rpc' = "done"
    /\ UNCHANGED <<source_rule, chase_rule, trieVars, dictVars, chaseVars, matVars, gictVars, navVars, lookupVars, buildersVars, dsvVars, indexVars, loopVars, conversionVars, operationVars>>

NextEquality == ApplyEqualityRule

SpecEquality == InitEquality /\ [][NextEquality]_vars

(***************************************************************************)
(* Building an IntervalLookupColumn                                        *)
(***************************************************************************)
MaxLookupCalls == 4

\* The interval counts add_interval is called with.
IntervalCounts == {0, 1, 2, USIZE_MAX}

InitLookupColumn ==
    /\ lookup_calls = <<>>
    /\ lookup_builder = LookupColumnBuilderDefault
    /\ lookup_column = None
    /\ lkpc = "build"
    /\ buffer = <<>>
    /\ TrieIdle /\ DictIdle /\ ChaseIdle /\ MatIdle /\ GictIdle /\ NavIdle /\ RuleIdle
    /\ BuildersIdle
    /\ DsvIdle /\ IndexIdle /\ LoopIdle /\ ConversionIdle /\ OperationIdle

\* IntervalLookupColumnBuilder::add_interval(interval_count)
AddInterval ==
    /\ lkpc = "build" /\ Len(lookup_calls) < MaxLookupCalls
    /\ \E interval_count \in IntervalCounts :
          /\ lookup_builder' = LookupColumnAddInterval(lookup_builder, interval_count)
          /\ lookup_calls' = Append(lookup_calls, <<"add_interval", interval_count>>)
    /\ UNCHANGED <<lookup_column, lkpc, trieVars, dictVars, chaseVars, matVars, gictVars,
                   navVars, ruleVars, buildersVars, dsvVars, indexVars, loopVars, conversionVars, operationVars>>

\* IntervalLookupColumnBuilder::add_empty()
AddEmpty ==
    /\ lkpc = "build" /\ Len(lookup_calls) < MaxLookupCalls
    /\ lookup_builder' = LookupColumnAddEmpty(lookup_builder)
    /\ lookup_calls' = Append(lookup_calls, <<"add_empty", 0>>)
    /\ UNCHANGED <<lookup_column, lkpc, trieVars, dictVars, chaseVars, matVars, gictVars,
                   navVars, ruleVars, buildersVars, dsvVars, indexVars, loopVars, conversionVars, operationVars>>

\* IntervalLookupColumnBuilder::finalize()
FinalizeLookup ==
    /\ lkpc = "build"
    /\ lookup_column' = Some(LookupColumnFinalize(lookup_builder))
    /\ lkpc' = "done"
    /\ UNCHANGED <<lookup_calls, lookup_builder, trieVars, dictVars, chaseVars, matVars,
                   gictVars, navVars, ruleVars, buildersVars, dsvVars, indexVars, loopVars, conversionVars, operationVars>>

NextLookupColumn == AddInterval \/ AddEmpty \/ FinalizeLookup

SpecLookupColumn == InitLookupColumn /\ [][NextLookupColumn]_vars

(***************************************************************************)
(* Building an IntervalColumnT with the matrix builder and with the        *)
(* triescan builder, over each of the lookup methods                       *)
(***************************************************************************)
MaxBuilderCalls == 5

InitBuilders ==
    /\ builder_calls = <<>>
    /\ returned = <<>>
    /\ matrix_builders = [m \in LookupMethods |-> MatrixBuilderDefaultOf(m)]
    /\ triescan_builders = [m \in LookupMethods |-> TriescanBuilderDefaultOf(m)]
    /\ interval_columns = <<>>
    /\ bpc = "build"
    /\ buffer = <<>>
    /\ TrieIdle /\ DictIdle /\ ChaseIdle /\ MatIdle /\ GictIdle /\ NavIdle /\ RuleIdle
    /\ LookupColumnIdle
    /\ DsvIdle /\ IndexIdle /\ LoopIdle /\ ConversionIdle /\ OperationIdle

\* add_value(value) on every builder
BuildersAddValue ==
    /\ bpc = "build" /\ Len(builder_calls) < MaxBuilderCalls
    /\ \E value \in Values :
          /\ matrix_builders' =
                [m \in LookupMethods |-> MatrixAddValue(matrix_builders[m], value).builder]
          /\ triescan_builders' =
                [m \in LookupMethods |-> TriescanAddValue(triescan_builders[m], value)]
          /\ builder_calls' = Append(builder_calls, <<"add_value", value>>)
          /\ returned' =
                Append(returned, Some(MatrixAddValue(matrix_builders["Single"], value).new_value))
    /\ UNCHANGED <<interval_columns, bpc, trieVars, dictVars, chaseVars, matVars, gictVars,
                   navVars, ruleVars, lookupVars, dsvVars, indexVars, loopVars, conversionVars, operationVars>>

\* finish_interval() on every builder
BuildersFinishInterval ==
    /\ bpc = "build" /\ Len(builder_calls) < MaxBuilderCalls
    /\ matrix_builders' =
          [m \in LookupMethods |-> MatrixFinishIntervalOf(m, matrix_builders[m])]
    /\ triescan_builders' =
          [m \in LookupMethods |-> TriescanFinishIntervalOf(m, triescan_builders[m])]
    /\ builder_calls' = Append(builder_calls, <<"finish_interval", <<0, 0>>>>)
    /\ returned' = Append(returned, None)
    /\ UNCHANGED <<interval_columns, bpc, trieVars, dictVars, chaseVars, matVars, gictVars,
                   navVars, ruleVars, lookupVars, dsvVars, indexVars, loopVars, conversionVars, operationVars>>

\* finalize() on every builder
BuildersFinalize ==
    /\ bpc = "build"
    /\ interval_columns' =
          [matrix   |-> [m \in LookupMethods |-> MatrixFinalizeOf(m, matrix_builders[m])],
           triescan |-> [m \in LookupMethods |-> TriescanFinalizeOf(m, triescan_builders[m])]]
    /\ bpc' = "done"
    /\ UNCHANGED <<builder_calls, returned, matrix_builders, triescan_builders, trieVars, dictVars,
                   chaseVars, matVars, gictVars, navVars, ruleVars, lookupVars, dsvVars, indexVars, loopVars, conversionVars, operationVars>>

NextBuilders == BuildersAddValue \/ BuildersFinishInterval \/ BuildersFinalize

SpecBuilders == InitBuilders /\ [][NextBuilders]_vars

(***************************************************************************)
(* Creating a DsvHandler and asking it for its format                      *)
(***************************************************************************)
\* The bytes a delimiter attribute is made of, and its values: strings of
\* zero to two bytes.
DelimiterBytes == {Tab, Comma, 59}

DelimiterStrings ==
    {<<>>} \cup {<<b>> : b \in DelimiterBytes}
           \cup {<<b, c>> : b \in DelimiterBytes, c \in DelimiterBytes}

\* The attributes of an import or export directive.
DsvAttributes ==
    [delimiter : {None} \cup {Some(s) : s \in DelimiterStrings},
     resource  : {None, Some(<<"file">>)},
     format    : {None, Some(<<"any">>), Some(<<"any", "skip">>)}]

InitDsv ==
    /\ dsv_variant = "none"
    /\ dsv_attributes = <<>>
    /\ dsv_handler = <<>>
    /\ dsv_reported = <<>>
    /\ buffer = <<>>
    /\ TrieIdle /\ DictIdle /\ ChaseIdle /\ MatIdle /\ GictIdle /\ NavIdle /\ RuleIdle
    /\ LookupColumnIdle /\ BuildersIdle /\ IndexIdle /\ LoopIdle /\ ConversionIdle /\ OperationIdle

\* DsvHandler::try_new_dsv(attributes)
TryNewDsv ==
    /\ dsv_variant = "none"
    /\ \E attributes \in DsvAttributes :
          /\ dsv_attributes' = attributes
          /\ dsv_handler' = DsvTryNew("DSV", attributes)
    /\ dsv_variant' = "DSV"
    /\ UNCHANGED <<dsv_reported, trieVars, dictVars, chaseVars, matVars, gictVars, navVars,
                   ruleVars, lookupVars, buildersVars, indexVars, loopVars, conversionVars, operationVars>>

\* DsvHandler::try_new_csv(attributes)
TryNewCsv ==
    /\ dsv_variant = "none"
    /\ \E attributes \in DsvAttributes :
          /\ dsv_attributes' = attributes
          /\ dsv_handler' = DsvTryNew("CSV", attributes)
    /\ dsv_variant' = "CSV"
    /\ UNCHANGED <<dsv_reported, trieVars, dictVars, chaseVars, matVars, gictVars, navVars,
                   ruleVars, lookupVars, buildersVars, indexVars, loopVars, conversionVars, operationVars>>

\* DsvHandler::try_new_tsv(attributes)
TryNewTsv ==
    /\ dsv_variant = "none"
    /\ \E attributes \in DsvAttributes :
          /\ dsv_attributes' = attributes
          /\ dsv_handler' = DsvTryNew("TSV", attributes)
    /\ dsv_variant' = "TSV"
    /\ UNCHANGED <<dsv_reported, trieVars, dictVars, chaseVars, matVars, gictVars, navVars,
                   ruleVars, lookupVars, buildersVars, indexVars, loopVars, conversionVars, operationVars>>

\* file_format(), file_extension() and arity() of the handler
ReportFormat ==
    /\ IsOk(dsv_handler)
    /\ dsv_reported = <<>>
    /\ dsv_reported' = [file_format    |-> FileFormat(dsv_handler[2]),
                        file_extension |-> FileExtension(dsv_handler[2]),
                        arity          |-> DsvArity(dsv_handler[2])]
    /\ UNCHANGED <<dsv_variant, dsv_attributes, dsv_handler, trieVars, dictVars, chaseVars,
                   matVars, gictVars, navVars, ruleVars, lookupVars, buildersVars, indexVars, loopVars, conversionVars, operationVars>>

NextDsv == TryNewDsv \/ TryNewCsv \/ TryNewTsv \/ ReportFormat

SpecDsv == InitDsv /\ [][NextDsv]_vars

(***************************************************************************)
(* The global index of the entries of an IntervalColumnT                   *)
(***************************************************************************)
MaxColumnLen == 2

RECURSIVE ColumnOfLength(_)
\* An interval column with n data entries in one interval.
ColumnOfLength(n) ==
    IF n = 0 THEN ColumnBuilderDefault
    ELSE AddData(ColumnOfLength(n - 1), n - 1)

InitGlobalIndex ==
    /\ \E n \in [StorageTypes -> 0..MaxColumnLen] :
          storage_column =
              IntervalColumnTNew(
                  [t \in StorageTypes |-> ColumnFinalize(FinishInterval(ColumnOfLength(n[t])))])
    /\ global_indices = None
    /\ buffer = <<>>
    /\ TrieIdle /\ DictIdle /\ ChaseIdle /\ MatIdle /\ GictIdle /\ NavIdle /\ RuleIdle
    /\ LookupColumnIdle /\ BuildersIdle /\ DsvIdle /\ LoopIdle /\ ConversionIdle /\ OperationIdle

\* global_index(storage_type, local_index) for every entry of the column
AllGlobalIndices ==
    /\ global_indices = None
    /\ global_indices' =
          Some([p \in {q \in StorageTypes \X (0..MaxColumnLen) :
                          q[2] < ColumnLen(storage_column, q[1])}
                  |-> GlobalIndex(storage_column, p[1], p[2])])
    /\ UNCHANGED <<storage_column, trieVars, dictVars, chaseVars, matVars, gictVars, navVars,
                   ruleVars, lookupVars, buildersVars, dsvVars, loopVars, conversionVars, operationVars>>

NextGlobalIndex == AllGlobalIndices

SpecGlobalIndex == InitGlobalIndex /\ [][NextGlobalIndex]_vars

(***************************************************************************)
(* The chase as a state machine                                            *)
(***************************************************************************)
InitChase ==
    /\ program \in Programs
    /\ \E facts \in SubsetsUpTo(EdbRows(program), MaxFacts) :
          tables = LoadTables(<<>>, program.edb, facts)
    /\ current_step = 1
    /\ rule_index = 1
    /\ rule_infos = [i \in DOMAIN program.rules |-> [step_last_applied |-> 0]]
    /\ saturated = [i \in DOMAIN program.rules |-> FALSE]
    /\ last_apply = NoApply
    /\ cpc = "run"
    /\ buffer = <<>>
    /\ TrieIdle
    /\ DictIdle
    /\ MatIdle
    /\ GictIdle
    /\ NavIdle
    /\ RuleIdle
    /\ LookupColumnIdle
    /\ BuildersIdle
    /\ DsvIdle /\ IndexIdle /\ LoopIdle /\ ConversionIdle /\ OperationIdle

\* The next rule of the step is applied: body, negation, heads; the new rows
\* are added to the table manager under the current step.
ApplyRule ==
    /\ cpc = "run"
    /\ rule_index <= Len(program.rules)
    /\ LET rule == program.rules[rule_index]
           node_main == AddBodyTree(rule, rule_infos[rule_index], current_step)
           node_negated == NodeNegation(node_main, current_step, rule.negative_body,
                                        Flatten(rule.negative_constraints))
           head_plans == HeadPlans(node_negated, rule, current_step)
           new_tables == ExecutePlans(tables, tables, head_plans, rule, current_step)
       IN  /\ tables' = new_tables
           /\ saturated' = [saturated EXCEPT ![rule_index] = (new_tables = tables)]
           /\ last_apply' = [rule_index |-> rule_index, step |-> current_step,
                             step_last_applied |-> rule_infos[rule_index].step_last_applied,
                             node_main |-> node_main, node_negated |-> node_negated,
                             head_plans |-> head_plans]
    /\ rule_infos' = [rule_infos EXCEPT ![rule_index].step_last_applied = current_step]
    /\ rule_index' = rule_index + 1
    /\ UNCHANGED <<program, current_step, cpc, trieVars, dictVars, matVars, gictVars, navVars, ruleVars, lookupVars, buildersVars, dsvVars, indexVars, loopVars, conversionVars, operationVars>>

\* All rules were applied in this step: the step counter advances, and the
\* loop ends if all rules are saturated.
EndStep ==
    /\ cpc = "run"
    /\ rule_index > Len(program.rules)
    /\ current_step' = current_step + 1
    /\ rule_index' = 1
    /\ cpc' = IF AllSaturated(saturated) THEN "done" ELSE "run"
    /\ UNCHANGED <<program, tables, rule_infos, saturated, last_apply, trieVars, dictVars, matVars, gictVars, navVars, ruleVars, lookupVars, buildersVars, dsvVars, indexVars, loopVars, conversionVars, operationVars>>

NextChase == ApplyRule \/ EndStep

SpecChase == InitChase /\ [][NextChase]_vars

\* The chase loop runs whenever it can.
SpecChaseFair == SpecChase /\ WF_vars(NextChase)

(***************************************************************************)
(* The dictionary as a state machine                                       *)
(***************************************************************************)
InitDict == DictIdle /\ buffer = <<>> /\ TrieIdle /\ ChaseIdle /\ MatIdle /\ GictIdle /\ NavIdle /\ RuleIdle /\ LookupColumnIdle /\ BuildersIdle /\ DsvIdle /\ IndexIdle /\ LoopIdle /\ ConversionIdle /\ OperationIdle

\* A call of add_datavalue.
DictAdd ==
    /\ \E dv \in DataValues :
         LET r == AddDatavalue(dict, dv)
         IN  /\ dict' = r.dict
             /\ last' = [op |-> "add", dv |-> dv, result |-> r.result,
                         value |-> AddResultValue(r.result),
                         before |-> DatavalueToId(dict, dv), len_before |-> DictLen(dict)]
             /\ fresh_order' = IF r.result[1] = "Fresh"
                               THEN Append(fresh_order, <<dv, r.result[2]>>)
                               ELSE fresh_order
    /\ UNCHANGED <<marked_only, trieVars, chaseVars, matVars, gictVars, navVars, ruleVars, lookupVars, buildersVars, dsvVars, indexVars, loopVars, conversionVars, operationVars>>

\* A call of mark_dv.
DictMark ==
    /\ \E dv \in DataValues :
         LET r == MarkDv(dict, dv)
         IN  /\ dict' = r.dict
             /\ last' = [op |-> "mark", dv |-> dv, result |-> r.result,
                         value |-> AddResultValue(r.result),
                         before |-> DatavalueToId(dict, dv), len_before |-> DictLen(dict)]
             /\ marked_only' = IF r.result = Fresh(KNOWN_ID_MARK)
                               THEN marked_only \cup {dv}
                               ELSE marked_only
    /\ UNCHANGED <<fresh_order, trieVars, chaseVars, matVars, gictVars, navVars, ruleVars, lookupVars, buildersVars, dsvVars, indexVars, loopVars, conversionVars, operationVars>>

NextDict == DictAdd \/ DictMark

SpecDict == InitDict /\ [][NextDict]_vars

\* C1: Matrix round-trip: enumerating the root-to-leaf paths of the trie
\* built from a set of rows yields every input row exactly once, and no
\* row that was not in the input.
C1_RoundTrip == tpc = "done" => out = buffer

(***************************************************************************)
(* C2                                                                      *)
(***************************************************************************)
\* The number of entries of a layer, over all storage types.
LayerLen(c) == At0(c.column_starts, NUM_STORAGETYPES - 1)

\* interval_bounds(t, p) of layer c, None where the lookup has no entry.
BoundsAt(c, t, p) ==
    IF p < Len(c.columns[t].interval_lookup.starts) THEN IntervalBounds(c, t, p) ELSE None

RangeLen(o) == IF o = None THEN 0 ELSE Unwrap(o)[2] - Unwrap(o)[1]

RECURSIVE SumIntervalLengths(_, _, _)
\* The summed length of the intervals of type t of the predecessors below n.
SumIntervalLengths(c, t, n) ==
    IF n = 0 THEN 0 ELSE RangeLen(BoundsAt(c, t, n - 1)) + SumIntervalLengths(c, t, n - 1)

RECURSIVE SumOverTypes(_, _, _)
SumOverTypes(c, n, t) ==
    IF t = 0 THEN 0 ELSE SumIntervalLengths(c, t, n) + SumOverTypes(c, n, t - 1)

IntervalsPartition(prev, c, t) ==
    LET n   == LayerLen(prev)
        len == Len(c.columns[t].data)
        P   == {p \in 0..(n - 1) : IsSome(BoundsAt(c, t, p))}
        R(p) == Unwrap(BoundsAt(c, t, p))
    IN  /\ n <= Len(c.columns[t].interval_lookup.starts)
        /\ \A p \in P : 0 <= R(p)[1] /\ R(p)[1] < R(p)[2] /\ R(p)[2] <= len
        /\ \A p \in P : \A q \in P \ {p} : R(p)[2] <= R(q)[1] \/ R(q)[2] <= R(p)[1]
        /\ \A i \in 0..(len - 1) : \E p \in P : R(p)[1] <= i /\ i < R(p)[2]

\* C2: Trie interval invariant: in a trie built by from_tuple_buffer, for
\* every layer i+1 and storage type, the ranges interval_bounds returns as
\* Some for the entries p of layer i are non-empty sub-ranges of the data
\* column of that type, pairwise disjoint, and cover it exactly; the number
\* of entries of layer i+1 is the sum of the interval lengths.
C2_IntervalInvariant ==
    tpc # "init" =>
        \A i \in 1..(Arity(trie) - 1) :
            /\ \A t \in StorageTypes : IntervalsPartition(trie[i], trie[i + 1], t)
            /\ LayerLen(trie[i + 1]) = SumOverTypes(trie[i + 1], LayerLen(trie[i]), NUM_STORAGETYPES)

\* A built trie of three layers in which a layer with several entries of
\* two storage types precedes a layer where some storage type has an
\* interval under one predecessor and none under another.
C2_Witness ==
    /\ tpc # "init"
    /\ Arity(trie) = 3
    /\ \E i \in 2..(Arity(trie) - 1) :
          /\ Cardinality({t \in StorageTypes : Len(trie[i].columns[t].data) > 0}) >= 2
          /\ \E t \in StorageTypes : \E p, q \in 0..(LayerLen(trie[i]) - 1) :
                IsSome(BoundsAt(trie[i + 1], t, p)) /\ BoundsAt(trie[i + 1], t, q) = None

(***************************************************************************)
(* Dictionary claims                                                       *)
(***************************************************************************)
\* The ids a caller can ask for: every id a dictionary of this size can
\* assign, one more, and the two fake ids.
Ids == (0..NumDataValues) \cup {KNOWN_ID_MARK, NONEXISTING_ID_MARK}

\* C8: after any sequence of add_datavalue and mark_dv calls, every value
\* that add_datavalue returned as Fresh(id) is looked up as Some(id) and id
\* is resolved to that value; every id other than KNOWN_ID_MARK that is
\* resolved to a value v is the id v is looked up as; and no two distinct
\* values are looked up as the same retrievable id.
C8_Bijection ==
    /\ \A i \in 1..Len(fresh_order) :
         /\ DatavalueToId(dict, fresh_order[i][1]) = Some(fresh_order[i][2])
         /\ IdToDatavalue(dict, fresh_order[i][2]) = Some(fresh_order[i][1])
    /\ \A id \in Ids :
         (id # KNOWN_ID_MARK /\ IsSome(IdToDatavalue(dict, id)))
            => DatavalueToId(dict, Unwrap(IdToDatavalue(dict, id))) = Some(id)
    /\ \A v, w \in DataValues :
         (/\ v # w
          /\ IsSome(DatavalueToId(dict, v))
          /\ DatavalueToId(dict, v) = DatavalueToId(dict, w))
            => IdToDatavalue(dict, Unwrap(DatavalueToId(dict, v))) = None

\* Two values have fresh ids, and another value is marked.
C8_Witness == Len(fresh_order) >= 2 /\ marked_only # {}

\* C9: mark_dv on a value that is not in the dictionary binds it to
\* KNOWN_ID_MARK: from then on the value is looked up as KNOWN_ID_MARK,
\* KNOWN_ID_MARK is resolved to no value, every later add_datavalue of the
\* value returns Known(KNOWN_ID_MARK), and neither the mark nor those adds
\* change len(); mark_dv on a value that has an id returns that id and
\* leaves it retrievable.
C9_Marking ==
    /\ \A v \in marked_only : DatavalueToId(dict, v) = Some(KNOWN_ID_MARK)
    /\ IdToDatavalue(dict, KNOWN_ID_MARK) = None
    /\ (last.op = "mark" /\ last.dv \in SupportedValues /\ last.before = None)
          => /\ last.dv \in marked_only
             /\ DictLen(dict) = last.len_before
    /\ (last.op = "add" /\ last.before = Some(KNOWN_ID_MARK))
          => /\ last.result = Known(KNOWN_ID_MARK)
             /\ DictLen(dict) = last.len_before
    /\ (last.op = "mark" /\ IsSome(last.before))
          => /\ last.result = Known(Unwrap(last.before))
             /\ DatavalueToId(dict, last.dv) = last.before
             /\ DictLen(dict) = last.len_before
             /\ Unwrap(last.before) # KNOWN_ID_MARK
                   => IdToDatavalue(dict, Unwrap(last.before)) = Some(last.dv)

\* A marked value has just been added again, in a dictionary that holds
\* values with ids.
C9_Witness ==
    /\ last.op = "add"
    /\ last.before = Some(KNOWN_ID_MARK)
    /\ DictLen(dict) >= 1

FactsOf(tm) == UNION {{<<tm[i].predicate, row>> : row \in tm[i].rows} : i \in DOMAIN tm}

\* The subtables of the steps before the given one.
TablesBefore(tm, step) == SelectSeq(tm, LAMBDA t : t.step < step)

\* The row of an atom under an assignment.
AtomRow(atom, a) == [i \in DOMAIN atom.variables |-> a[atom.variables[i]]]

BodyVariables(rule) ==
    UNION {SeqRange(rule.positive_body[i].variables) : i \in DOMAIN rule.positive_body}

\* A negative atom matches under an assignment of the body: some row of its
\* predicate agrees with the assignment and satisfies the atom's constraints.
NegativeMatch(rule, k, a, facts) ==
    \E b \in [SeqRange(rule.negative_body[k].variables) -> Dom] :
        /\ Compatible(a, b)
        /\ <<rule.negative_body[k].predicate, AtomRow(rule.negative_body[k], b)>> \in facts
        /\ \A c \in SeqRange(rule.negative_constraints[k]) : ConstraintHolds(c, b)

\* All matches of the body of a rule over a set of facts.
NaiveMatches(rule, facts) ==
    {a \in [BodyVariables(rule) -> Dom] :
        /\ \A i \in DOMAIN rule.positive_body :
              <<rule.positive_body[i].predicate, AtomRow(rule.positive_body[i], a)>> \in facts
        /\ \A c \in SeqRange(rule.positive_constraints) : ConstraintHolds(c, a)
        /\ \A k \in DOMAIN rule.negative_body : ~ NegativeMatch(rule, k, a, facts)}

\* The facts all rules derive from a set of facts.
NaiveDerived(rules, facts) ==
    UNION {UNION {{<<rules[r].head[h].predicate, AtomRow(rules[r].head[h], a)>> :
                      a \in NaiveMatches(rules[r], facts)} :
                  h \in DOMAIN rules[r].head} :
           r \in DOMAIN rules}

RECURSIVE NaiveFixpoint(_, _)
\* Naive evaluation: every step recomputes all matches over all facts.
NaiveFixpoint(rules, facts) ==
    LET next == facts \cup NaiveDerived(rules, facts)
    IN  IF next = facts THEN facts ELSE NaiveFixpoint(rules, next)

AddedIn(step) == \E i \in DOMAIN tables : tables[i].step = step

\* C4: the chase loop stops exactly when every rule is saturated at the same
\* step, that is when a step has added no subtable; it stops eventually; and
\* for p(x) :- p(x) it stops with the step counter at 2 and with p as loaded.
C4_FixpointTermination ==
    /\ [](/\ cpc = "done" => ~ AddedIn(current_step - 1)
          /\ (cpc = "run" /\ current_step > 1) => AddedIn(current_step - 1)
          /\ (cpc = "done" /\ program = ProgramLoop)
                => /\ current_step = 2
                   /\ FactsOf(tables) = FactsOf(TablesBefore(tables, 1)))
    /\ <>(cpc = "done")

\* The chase of p(x) :- p(x) over p(1) has stopped.
C4_Witness ==
    /\ cpc = "done"
    /\ program = ProgramLoop
    /\ current_step = 2
    /\ tables = <<[predicate |-> "p", step |-> 0, rows |-> {<<1>>}]>>

NegationFree(prog) == \A r \in DOMAIN prog.rules : prog.rules[r].negative_body = <<>>

Predicates(prog) ==
    {prog.edb[i][1] : i \in DOMAIN prog.edb}
        \cup UNION {{prog.rules[r].head[h].predicate : h \in DOMAIN prog.rules[r].head} :
                    r \in DOMAIN prog.rules}

\* The rows of a predicate visible at a step: its subtables of steps <= s.
VisibleAt(tm, predicate, s) == UnionScan(tm, predicate, 0, s + 1)

\* C5: a subtable, once added, is never changed or removed, and a subtable
\* is only added under the current step; for a program without negation
\* the rows of a predicate visible at a step are a subset of those visible
\* at every later step, now and after every further rule application.
C5_Monotonicity ==
    [][/\ \A i \in DOMAIN tables : i \in DOMAIN tables' /\ tables'[i] = tables[i]
       /\ \A j \in DOMAIN tables' \ DOMAIN tables : tables'[j].step = current_step
       /\ NegationFree(program) =>
             \A predicate \in Predicates(program) : \A s \in 0..current_step' :
                /\ VisibleAt(tables, predicate, s) \subseteq VisibleAt(tables', predicate, s)
                /\ \A t \in s..current_step' :
                      VisibleAt(tables', predicate, s) \subseteq VisibleAt(tables', predicate, t)]_vars

\* The closure program has subtables of three steps after the loaded ones.
C5_Witness ==
    /\ program = ProgramClosure
    /\ AddedIn(1) /\ AddedIn(2) /\ AddedIn(3)

\* The plans of the last rule application.
LastPlans == {last_apply.node_main, last_apply.node_negated} \cup SeqRange(last_apply.head_plans)

\* C6: every plan of a rule application at step s loads ranges of steps
\* that end before s, so that no subtable of step s is read; the negated
\* atoms are loaded over 0..s, and the atoms of the body over 0..s or from
\* the step of the rule's last application to s.
C6_StepVisibility ==
    last_apply.rule_index > 0 =>
        LET rule == program.rules[last_apply.rule_index]
        IN  /\ \A plan \in LastPlans : \A load \in PlanLoads(plan) :
                  /\ load[3] <= last_apply.step
                  /\ \A i \in DOMAIN tables :
                        (/\ tables[i].predicate = load[1]
                         /\ load[2] <= tables[i].step
                         /\ tables[i].step < load[3]) => tables[i].step < last_apply.step
            /\ PlanLoads(last_apply.node_negated) \ PlanLoads(last_apply.node_main)
                  \subseteq {<<rule.negative_body[k].predicate, 0, last_apply.step>> :
                                k \in DOMAIN rule.negative_body}
            /\ \A k \in DOMAIN rule.negative_body :
                  <<rule.negative_body[k].predicate, 0, last_apply.step>>
                      \in PlanLoads(last_apply.node_negated)
            /\ PlanLoads(last_apply.node_main)
                  \subseteq UNION {{<<rule.positive_body[i].predicate, 0, last_apply.step>>,
                                    <<rule.positive_body[i].predicate,
                                      last_apply.step_last_applied, last_apply.step>>} :
                                   i \in DOMAIN rule.positive_body}
            /\ \A i \in DOMAIN rule.positive_body :
                  <<rule.positive_body[i].predicate, last_apply.step_last_applied,
                    last_apply.step>> \in PlanLoads(last_apply.node_main)

\* A rule with a negated atom q was applied in a step in which an earlier
\* rule had added a subtable of q.
C6_Witness ==
    /\ program = ProgramDerivedNegation
    /\ last_apply.rule_index = 2
    /\ \E i \in DOMAIN tables :
          tables[i].predicate = "q" /\ tables[i].step = last_apply.step

\* The rows of a negated atom that count: those of the steps before the
\* application that satisfy the constraints over the atom's variables.
SubtractedRows(atom, filters, step) ==
    {row \in UnionScan(tables, atom.predicate, 0, step) :
        \A c \in SeqRange(filters) :
            ConstraintVariables(c) \subseteq SeqRange(atom.variables)
                => ConstraintHolds(c, RowAssignment(row, atom.variables))}

ChildrenOf(rows, n, parent, t) ==
    LET under == SelectSeq(DistinctPrefixes(rows, n),
                           LAMBDA r : SubSeq(r, 1, n - 1) = parent /\ TypeOf(r[n]) = t)
    IN  [k \in DOMAIN under |-> PayloadOf(under[k][n])]

\* The entries of the data column of type t of layer c that the interval
\* of predecessor p holds.
IntervalValues(c, t, p) ==
    IF BoundsAt(c, t, p) = None THEN <<>>
    ELSE SubSeq(c.columns[t].data, Unwrap(BoundsAt(c, t, p))[1] + 1, Unwrap(BoundsAt(c, t, p))[2])

\* C11: from_trie_scan(S, k) over a complete scan of arity n returns a trie
\* of arity n - k; the data columns of layer i hold the values of the
\* distinct prefixes of length i in the order they are streamed; and the
\* interval registered in layer i for the p-th entry streamed on layer i - 1
\* holds exactly the values streamed under that entry.
C11_TriescanMaterialization ==
    mpc = "done" =>
        /\ Arity(mat) = scan_arity - cut_layers
        /\ \A n \in 1..Arity(mat) : \A t \in StorageTypes :
              LET of_type == SelectSeq(DistinctPrefixes(buffer, n), LAMBDA r : TypeOf(r[n]) = t)
              IN  mat[n].columns[t].data = [k \in DOMAIN of_type |-> PayloadOf(of_type[k][n])]
        /\ \A n \in 2..Arity(mat) : \A t \in StorageTypes :
              LET parents == DistinctPrefixes(buffer, n - 1)
              IN  \A p \in DOMAIN parents :
                     IntervalValues(mat[n], t, p - 1) = ChildrenOf(buffer, n, parents[p], t)

\* The prefixes of k values the scan can be positioned on, in the order a
\* depth-first walk reaches them.
RECURSIVE SortedPaths(_, _)
SortedPaths(ps, k) ==
    IF k = 0 THEN <<<<>>>>
    ELSE LET parents == SortedPaths(ps, k - 1)
             below(p) == LET c == ScanChildren(ps, p)
                         IN  [j \in 1..Len(c) |-> Append(p, c[j])]
             cat[j \in 0..Len(parents)] ==
                 IF j = 0 THEN <<>> ELSE cat[j - 1] \o below(parents[j])
         IN  cat[Len(parents)]

\* The stored trie of a set of prefixes: layer k holds the last values of
\* the prefixes of k values, and one interval start for every prefix of
\* k - 1 values that has children.
StoredTrie(ps, n) ==
    [k \in 1..n |->
        LET parents == SortedPaths(ps, k - 1)
            entries == SortedPaths(ps, k)
            start[j \in 0..Len(parents)] ==
                IF j = 0 THEN 0 ELSE start[j - 1] + Len(ScanChildren(ps, parents[j]))
            with_children == {j \in 1..Len(parents) : ScanChildren(ps, parents[j]) # <<>>}
            order == SortedSeq(with_children)
        IN  [data |-> [j \in 1..Len(entries) |-> entries[j][k]],
             int_starts |-> [j \in 1..Len(order) |-> start[order[j] - 1]]]]

\* Every entry of a layer that is not the last has children.
WellFormed(ps, n) ==
    \A p \in ps : Len(p) < n => ScanChildren(ps, p) # <<>>

\* The prefixes of the rows that reach the last layer.
CompleteRows(ps, n) ==
    {p \in ps : \E q \in ps : Len(q) = n /\ SubSeq(q, 1, Len(p)) = p}

\* C12: materialize over the scan of a well-formed stored trie returns a
\* trie whose data column and interval-start column are, in every layer,
\* those of the stored trie.
C12_MaterializeIdentity ==
    (gpc = "done" /\ WellFormed(paths, target_arity))
        => result_columns = StoredTrie(paths, target_arity)

\* C12 happens: a well-formed trie of three layers in which the last layer
\* has more intervals than the layer above has, materialized.
C12_Witness ==
    /\ gpc = "done"
    /\ target_arity = 3
    /\ WellFormed(paths, target_arity)
    /\ Len(result_columns[2].int_starts) = 2
    /\ Len(result_columns[3].int_starts) = 3
    /\ Len(result_columns[3].data) > 3

\* C13: materialize keeps only complete rows: a layer holds exactly the
\* values that a row reaching the last layer extends, and layer i + 1 has
\* as many interval starts as layer i has values.
C13_CompleteRowsOnly ==
    gpc = "done" =>
        /\ \A i \in 1..target_arity :
               result_columns[i].data = StoredTrie(CompleteRows(paths, target_arity), target_arity)[i].data
        /\ \A i \in 1..(target_arity - 1) :
               Len(result_columns[i + 1].int_starts) = Len(result_columns[i].data)
(***************************************************************************)
(* Navigation of TrieScanGeneric                                           *)
(***************************************************************************)
\* The values the scan of the current layer and type will enumerate: the
\* entries of its window.
ScanWindow(t, pt, cs) ==
    LET layer == Len(pt)
        rb    == cs[layer][Last(pt)]
    IN  SubSeq(t[layer].columns[Last(pt)].data, rb.lo + 1, rb.hi)

\* down has just been called below the root: the scan of the current layer
\* has not been moved yet.
JustWentDown ==
    /\ tpc = "scan"
    /\ mode = "next"
    /\ Len(path_types) >= 2
    /\ RainbowPos(column_scans[Len(path_types)], Last(path_types)) = None

\* C14: after down(next_type) from an element with prefix P, the scan of the
\* next layer for next_type enumerates exactly the values v of that type
\* such that P followed by v is a prefix of a row of the trie, ascending;
\* also when the layer holds several storage types under several
\* predecessors.
C14_DownNarrows ==
    JustWentDown =>
        ScanWindow(trie, path_types, column_scans)
            = ChildrenOf(buffer, Len(path_types),
                         CurrentRow(trie, Pop(path_types), column_scans),
                         Last(path_types))
FlatRule == FlattenAtoms(substituted).rule

\* The position of the k-th literal among the negative literals.
NegativeIndex(r, k) == Cardinality({j \in 1..k : ~r.body[j].positive})

\* The constraints stored for the k-th literal of the body: the positive
\* constraints, or the list of that negative atom.
ConstraintsFor(r, k) ==
    IF r.body[k].positive THEN SeqRange(chase_rule.positive_constraints)
    ELSE SeqRange(chase_rule.negative_constraints[NegativeIndex(r, k)])

\* C16: in the chase rule try_from returns, every positive and negative body
\* atom holds only variables and none of them twice; every term that was
\* replaced is tied to its fresh _EQUALITY_ variable by an equality in the
\* positive constraints, or in the constraints of that negative atom; and
\* the head atoms hold only variables and ground terms.
C16_NormalForm ==
    rpc = "done" =>
        /\ \A k \in DOMAIN FlatRule.body : ~FromFlatAtomPanics(FlatRule.body[k].atom)
        /\ \A k \in DOMAIN chase_rule.positive_body :
              \A i, j \in DOMAIN chase_rule.positive_body[k].variables :
                  i # j => chase_rule.positive_body[k].variables[i]
                               # chase_rule.positive_body[k].variables[j]
        /\ \A k \in DOMAIN chase_rule.negative_body :
              \A i, j \in DOMAIN chase_rule.negative_body[k].variables :
                  i # j => chase_rule.negative_body[k].variables[i]
                               # chase_rule.negative_body[k].variables[j]
        /\ \A k \in DOMAIN substituted.body : \A i \in DOMAIN substituted.body[k].atom.terms :
              LET before == substituted.body[k].atom.terms[i]
                  after  == FlatRule.body[k].atom.terms[i]
              IN  /\ (IsVariable(before) /\
                        \A j \in 1..(i - 1) : substituted.body[k].atom.terms[j] # before)
                         => after = before
                  /\ after # before =>
                        /\ after[2] = EQUALITY_VARIABLE_PREFIX
                        /\ Constraint("Equals", after, before) \in ConstraintsFor(substituted, k)
        /\ \A k \in DOMAIN chase_rule.head : \A i \in DOMAIN chase_rule.head[k].terms :
              chase_rule.head[k].terms[i][1] \in {"Variable", "Ground"}

\* C16 happens: a rule with a repeated variable or a constant in a positive
\* atom, one in a negative atom and a head term that is not primitive has
\* been translated.
C16_Witness ==
    /\ rpc = "done"
    /\ chase_rule # <<>>
    /\ chase_rule.positive_constraints # <<>>
    /\ Len(chase_rule.negative_body) = 1
    /\ Len(chase_rule.negative_constraints[1]) = 2
    /\ chase_rule.positive_constructors # <<>>

RECURSIVE Closure(_)
\* The symmetric and transitive closure of a set of pairs.
Closure(pairs) ==
    LET step == pairs \cup {<<p[2], p[1]>> : p \in pairs}
                      \cup {<<pq[1][1], pq[2][2]>> :
                               pq \in {r \in pairs \X pairs : r[1][2] = r[2][1]}}
    IN  IF step = pairs THEN pairs ELSE Closure(step)

\* The pairs of variables that chains of the equalities of the rule connect.
Connected(r) ==
    Closure({<<VariableName(r.constraints[k].left), VariableName(r.constraints[k].right)>> :
                k \in {j \in DOMAIN r.constraints : IsVariableEquality(r.constraints[j])}})

\* C17: apply_equality removes every constraint ?X = ?Y, replaces any two
\* variables that a chain of the removed equalities connects by one and the
\* same variable in every atom, constraint and head term, and leaves the
\* other variables as they are.
C17_EqualitySubstitution ==
    rpc = "done" =>
        /\ \A k \in DOMAIN substituted.constraints :
              ~IsVariableEquality(substituted.constraints[k])
        /\ \E sigma \in [RuleVariables -> RuleVariables] :
              /\ \A p \in Connected(source_rule) : sigma[p[1]] = sigma[p[2]]
              /\ \A v \in RuleVariables :
                    (\A p \in Connected(source_rule) : p[1] # v) => sigma[v] = v
              /\ substituted =
                    RuleApplyAssignment(
                        [source_rule EXCEPT !.constraints =
                            SelectSeq(@, LAMBDA c : ~IsVariableEquality(c))],
                        [v \in RuleVariables |-> TermVariable(sigma[v])])

(***************************************************************************)
(* Claims on the lookups and the builders                                  *)
(***************************************************************************)
\* C18: is_exclusive() holds exactly when add_empty was never called; after
\* finalize, interval_index(p) is None when the p-th call was add_empty and
\* Some(j) when it was add_interval(j) with j < usize::MAX.
C18_LookupColumnBuilder ==
    /\ lkpc \in {"build", "done"} =>
          (IsExclusive(lookup_builder)
              <=> \A p \in DOMAIN lookup_calls : lookup_calls[p][1] # "add_empty")
    /\ lkpc = "done" =>
          \A p \in DOMAIN lookup_calls :
              /\ lookup_calls[p][1] = "add_empty" =>
                    IntervalIndex(Unwrap(lookup_column), p - 1) = None
              /\ (lookup_calls[p][1] = "add_interval" /\ lookup_calls[p][2] < USIZE_MAX) =>
                    IntervalIndex(Unwrap(lookup_column), p - 1) = Some(lookup_calls[p][2])

\* C18 happens: a lookup built with add_empty between two add_interval calls
\* has been finalized.
C18_Witness ==
    /\ lkpc = "done"
    /\ Len(lookup_calls) >= 3
    /\ \E p \in 2..(Len(lookup_calls) - 1) :
          /\ lookup_calls[p][1] = "add_empty"
          /\ lookup_calls[p - 1][1] = "add_interval"
          /\ lookup_calls[p + 1][1] = "add_interval"

\* The calls of add_value repeat no value within an interval.
NoConsecutiveDuplicates ==
    \A p \in 1..(Len(builder_calls) - 1) :
        builder_calls[p][1] = "add_value" => builder_calls[p + 1] # builder_calls[p]

\* Every interval has been finished.
AllIntervalsFinished ==
    builder_calls = <<>> \/ Last(builder_calls)[1] = "finish_interval"

\* The number of intervals that were finished.
NumIntervals == Cardinality({p \in DOMAIN builder_calls : builder_calls[p][1] = "finish_interval"})

\* The values of type t added to the interval of predecessor index.
ValuesAdded(index, t) ==
    {p \in DOMAIN builder_calls :
        /\ builder_calls[p][1] = "add_value"
        /\ TypeOf(builder_calls[p][2]) = t
        /\ Cardinality({q \in 1..p : builder_calls[q][1] = "finish_interval"}) = index}

C20_DsvVariants ==
    (IsOk(dsv_handler) /\ dsv_reported # <<>>) =>
        /\ dsv_variant = "TSV" =>
              /\ dsv_handler[2].delimiter = Tab
              /\ dsv_reported.file_format = "TSV"
              /\ dsv_reported.file_extension = Some("tsv")
        /\ dsv_variant = "CSV" =>
              /\ dsv_handler[2].delimiter = Comma
              /\ dsv_reported.file_format = "CSV"
              /\ dsv_reported.file_extension = Some("csv")
        /\ dsv_variant = "DSV" =>
              dsv_attributes.delimiter = Some(<<dsv_handler[2].delimiter>>)

\* C21: try_new_dsv without a delimiter attribute fails with
\* MissingAttribute; a delimiter attribute whose length is not one byte fails
\* with an invalid-attribute-value error for every variant; try_new_csv and
\* try_new_tsv with a one-byte delimiter attribute fail with
\* UnknownAttribute; a failed try_new returns no handler.
C21_DelimiterErrors ==
    dsv_variant # "none" =>
        LET string == dsv_attributes.delimiter
        IN  /\ (dsv_variant = "DSV" /\ string = None)
                  => dsv_handler = Err("MissingAttribute")
            /\ (string # None /\ Len(UnwrapOr(string, <<>>)) # 1)
                  => dsv_handler = Err("InvalidAttributeValue")
            /\ (dsv_variant \in {"CSV", "TSV"} /\ string # None
                    /\ Len(UnwrapOr(string, <<>>)) = 1)
                  => dsv_handler = Err("UnknownAttribute")
            /\ ~IsOk(dsv_handler)
                  => /\ dsv_handler[1] = "Err"
                     /\ Len(dsv_handler) = 2
                     /\ dsv_handler[2] \in {"MissingAttribute", "InvalidAttributeValue",
                                            "UnknownAttribute"}
                     /\ dsv_reported = <<>>

\* C21 happens: try_new_tsv was called with a one-byte delimiter attribute.
C21_Witness ==
    /\ dsv_variant = "TSV"
    /\ dsv_attributes.delimiter = Some(<<Tab>>)
    /\ dsv_handler = Err("UnknownAttribute")

(***************************************************************************)
(* Claims on the plan of negation                                          *)
(***************************************************************************)
\* C22: in the plan of node_negation the subtrahend of the k-th negated atom
\* is the union of the atom's subtables filtered by the k-th list of
\* negative_constraints and by no constraint of another negated atom, and
\* the filter is below the subtraction.
C22_PerAtomFilters ==
    (last_apply.rule_index > 0
        /\ program.rules[last_apply.rule_index].negative_body # <<>>) =>
        LET rule == program.rules[last_apply.rule_index]
            node == last_apply.node_negated
        IN  /\ node.kind = "subtract"
            /\ node.node_main = last_apply.node_main
            /\ DOMAIN node.subtracted = DOMAIN rule.negative_body
            /\ \A k \in DOMAIN rule.negative_body :
                  /\ node.subtracted[k].kind = "filter"
                  /\ node.subtracted[k].node.kind = "load"
                  /\ node.subtracted[k].node.predicate = rule.negative_body[k].predicate
                  /\ node.subtracted[k].constraints = rule.negative_constraints[k]

(***************************************************************************)
(* Claims on the matrix builder and the global index                       *)
(***************************************************************************)
\* The call at position p is add_value.
IsAddValue(p) == builder_calls[p][1] = "add_value"

\* The payloads of the calls of add_value with a value of type t that
\* returned true, in the order of the calls.
RECURSIVE Accepted(_, _)
Accepted(n, t) ==
    IF n = 0 THEN <<>>
    ELSE IF IsAddValue(n) /\ TypeOf(builder_calls[n][2]) = t /\ returned[n] = Some(TRUE)
         THEN Append(Accepted(n - 1, t), PayloadOf(builder_calls[n][2]))
         ELSE Accepted(n - 1, t)

\* What the matrix builder holds of type t: the data column and the cached
\* value.
Held(b, t) ==
    IF IsSome(b.current_data_item) /\ TypeOf(UnwrapOr(b.current_data_item, <<t, 0>>)) = t
    THEN Append(b.builders[t].data, PayloadOf(Unwrap(b.current_data_item)))
    ELSE b.builders[t].data

\* The values of every interval are added in ascending order.
SortedCalls ==
    \A p \in 1..(Len(builder_calls) - 1) :
        (IsAddValue(p) /\ IsAddValue(p + 1))
            => ~ValueLess(builder_calls[p + 1][2], builder_calls[p][2])

\* C23: add_value of the matrix builder returns false exactly when the
\* value is that of the call of add_value immediately before it, with no
\* finish_interval in between, and true otherwise; a call that returned
\* false adds no data entry and a call that returned true adds one, also
\* for a value repeated after finish_interval; for sorted input every
\* interval holds strictly ascending values per storage type.
C23_MatrixDeduplication ==
    /\ bpc \in {"build", "done"} =>
          /\ \A p \in DOMAIN builder_calls :
                IsAddValue(p) =>
                    (returned[p] = Some(FALSE)
                        <=> (p > 1 /\ builder_calls[p - 1] = builder_calls[p]))
          /\ \A m \in LookupMethods : \A t \in StorageTypes :
                Held(matrix_builders[m], t) = Accepted(Len(builder_calls), t)
    /\ (bpc = "done" /\ AllIntervalsFinished /\ SortedCalls) =>
          \A m \in LookupMethods : \A t \in StorageTypes :
              LET c == interval_columns.matrix[m]
              IN  /\ c.columns[t].data = Accepted(Len(builder_calls), t)
                  /\ \A index \in 0..(NumIntervals - 1) :
                        LET bounds == IntervalBoundsOf(m, c, t, index)
                        IN  bounds # None =>
                              \A i \in (Unwrap(bounds)[1] + 1)..(Unwrap(bounds)[2] - 1) :
                                  c.columns[t].data[i] < c.columns[t].data[i + 1]

\* C23 happens: a value was added twice in a row, the interval was finished,
\* and the value was added again.
C23_Witness ==
    /\ bpc = "done"
    /\ Len(builder_calls) = 5
    /\ builder_calls[1] = builder_calls[2]
    /\ IsAddValue(1)
    /\ ~IsAddValue(3)
    /\ builder_calls[4] = builder_calls[1]
    /\ ~IsAddValue(5)
    /\ returned = <<Some(TRUE), Some(FALSE), None, Some(TRUE), None>>

RECURSIVE SumOfLengths(_, _)
\* The number of entries of the columns of the first t storage types.
SumOfLengths(c, t) ==
    IF t = 0 THEN 0 ELSE SumOfLengths(c, t - 1) + ColumnLen(c, t)

\* C24: column_starts holds the cumulative lengths of the Id32, Id64, Int64,
\* Float and Double columns, and global_index over the entries of the
\* columns is injective and onto 0 .. total - 1, with all entries of a
\* storage type before those of the next one and in their local order.
C24_GlobalIndex ==
    /\ storage_column # <<>> =>
          \A k \in 0..(NUM_STORAGETYPES - 1) :
              At0(storage_column.column_starts, k) = SumOfLengths(storage_column, k + 1)
    /\ global_indices # None =>
          LET g == Unwrap(global_indices)
              total == SumOfLengths(storage_column, NUM_STORAGETYPES)
          IN  /\ \A p \in DOMAIN g : \A q \in DOMAIN g : g[p] = g[q] => p = q
              /\ {g[p] : p \in DOMAIN g} = 0..(total - 1)
              /\ \A p \in DOMAIN g : \A q \in DOMAIN g :
                    (p[1] < q[1] \/ (p[1] = q[1] /\ p[2] < q[2])) => g[p] < g[q]

\* C24 happens: the global indices of a column with entries of all five
\* storage types, two of some of them, were computed.
C24_Witness ==
    /\ global_indices # None
    /\ \A t \in StorageTypes : ColumnLen(storage_column, t) >= 1
    /\ ColumnLen(storage_column, Id64) = 2
    /\ ColumnLen(storage_column, Float) = 2
\* The variables that the constructors before position i define.
DefinedBefore(constructors, i) == {constructors[j].variable : j \in 1..(i - 1)}

\* The variables of the positive body of a chase rule.
PositiveBodyVariables(rule) ==
    UNION {{rule.positive_body[k].variables[i] : i \in DOMAIN rule.positive_body[k].variables} :
           k \in DOMAIN rule.positive_body}

\* C25: in every chase rule that try_from produces, the term of the
\* constructor at position i of positive_constructors uses only variables of
\* the positive body and variables that constructors at positions before i
\* define, also when a head term that became a _CONSTRUCT_ variable uses a
\* variable that an assignment constraint defines.
C25_ConstructorOrder ==
    rpc = "done" =>
        \A i \in DOMAIN chase_rule.positive_constructors :
            TermVariables(chase_rule.positive_constructors[i].term)
                \subseteq PositiveBodyVariables(chase_rule)
                          \cup DefinedBefore(chase_rule.positive_constructors, i)

\* How often x occurs in the sequence.
Occurrences(seq, x) == Cardinality({i \in DOMAIN seq : seq[i] = x})

RECURSIVE SumOccurrences(_, _, _)
\* How often x occurs in the first n lists.
SumOccurrences(lists, n, x) ==
    IF n = 0 THEN 0 ELSE SumOccurrences(lists, n - 1, x) + Occurrences(lists[n], x)

\* How often the categories of the chase rule hold the constraint.
Placements(rule, constraint) ==
    (IF HasFormAssignment(constraint)
     THEN Occurrences(rule.positive_constructors,
                      [variable |-> VariableName(constraint.left), term |-> constraint.right])
     ELSE 0)
    + Occurrences(rule.positive_constraints, constraint)
    + SumOccurrences(rule.negative_constraints, Len(rule.negative_constraints), constraint)

\* The constraint indices that seperate_constraints has assigned at its
\* assertion.
AssignedConstraints(input) ==
    LET flat == FlattenAtoms(ApplyEquality(input))
        negative == BodyAtoms(flat.rule, FALSE)
        negative_body == [k \in DOMAIN negative |-> VariableAtomFromFlatAtom(negative[k])]
    IN  SeperateConstraints(flat.rule, negative_body, flat.new_constraints).assigned_constraints

\* C26: seperate_constraints places each constraint of the rule in exactly
\* one category exactly once, also a constraint on several variables of
\* negated atoms; its assertion on the number of assigned constraints
\* holds; and negative_constraints has one list for each negative atom.
C26_ConstraintPartition ==
    rpc = "done" =>
        /\ \A k \in DOMAIN substituted.constraints :
              Placements(chase_rule, substituted.constraints[k]) = 1
        /\ Cardinality(AssignedConstraints(source_rule)) = Len(substituted.constraints)
        /\ Len(chase_rule.negative_constraints) = Len(chase_rule.negative_body)

\* One step of the navigation in which up changes no column scan, down
\* changes no scan of the layers of the path, no call changes a scan of a
\* layer above the current one, and next on the layer that an up has
\* returned to moves its scan to the successor of the position it had
\* below that layer.
UpLeavesScansStep ==
    /\ nav'.op = "up" => column_scans' = column_scans
    /\ nav'.op = "down" =>
          \A l \in 1..Len(path_types) : column_scans'[l] = column_scans[l]
    /\ \A l \in 1..(Len(path_types) - 1) : column_scans'[l] = column_scans[l]
    /\ (nav'.op = "next" /\ nav.op = "up" /\ nav.outcome = "ok") =>
          RainbowPos(column_scans'[Len(path_types)], Last(path_types))
              = NextPos(nav.column_scans[Len(path_types)], Last(path_types))

\* C27: up only removes the last storage type from the path and changes no
\* column scan position in any layer, so after down, any advances on the
\* child layer, and up, the next call of next on the parent layer returns
\* the successor of the element the parent was positioned on before the
\* down.
C27_UpLeavesScans == [][UpLeavesScansStep]_vars

\* C27 happens: up has been called from a child layer whose scan had been
\* advanced to an element, below a parent that points at an element.
C27_Witness ==
    /\ nav.op = "up"
    /\ nav.outcome = "ok"
    /\ Len(nav.path_types) >= 2
    /\ IsSome(RainbowPos(nav.column_scans[Len(nav.path_types)], Last(nav.path_types)))
    /\ IsSome(RainbowPos(column_scans[Len(path_types)], Last(path_types)))
    /\ path_types = Pop(nav.path_types)

\* The loop of materialize has ended at layer 0, with as many calls of up
\* as of down after the first, having read every value below every prefix
\* of the scan exactly once.
LoopEndedCleanly ==
    /\ materialize_state.current_layer = 0
    /\ materialize_ups = materialize_downs
    /\ \A i, j \in DOMAIN materialize_reads :
          materialize_reads[i] = materialize_reads[j] => i = j
    /\ {materialize_reads[i] : i \in DOMAIN materialize_reads} = paths

\* The column scans the loop walks: one below the root and one below every
\* prefix that is not on the last layer.
Intervals(ps, n) == {<<>>} \cup {p \in ps : Len(p) < n}

\* Every iteration advances one column scan by one call of next, and a
\* scan of k values is advanced k + 1 times.
IterationBound(ps, n) == Cardinality(ps) + Cardinality(Intervals(ps, n))

\* C28: for every finite trie scan of arity at least 1, also one whose first
\* layer is empty, the loop of materialize ends after finitely many
\* iterations (a running loop has run fewer than one per value and per
\* column scan), at layer 0, having called up as often as it called down
\* after the first down and having visited every value of every reachable
\* interval exactly once.
C28_MaterializeTerminates ==
    /\ lpc = "loop" => materialize_iterations < IterationBound(paths, target_arity)
    /\ lpc = "done" => /\ materialize_iterations = IterationBound(paths, target_arity)
                       /\ LoopEndedCleanly

\* C28 happens: the loop has ended on a scan of two layers or more after
\* going down and up twice or more.
C28_Witness ==
    /\ lpc = "done"
    /\ target_arity >= 2
    /\ materialize_downs >= 2
    /\ materialize_ups >= 2

\* C29: ground_term_to_data_value_t never aborts: for every logical type
\* and every ground term it returns Ok(value) or
\* Err(InvalidRuleTermConversion); under Integer every integer literal, of
\* either sign, and every xsd:integer literal with a parseable value yields
\* Ok and every other term yields the error; under Any every ground term
\* yields Ok.
C29_ConversionTotal ==
    gtpc = "done" =>
        /\ \/ IsOk(data_value)
           \/ data_value = InvalidRuleTermConversion(ground_term, logical_type)
        /\ logical_type = "Integer" =>
              (IsOk(data_value)
                  <=> \/ ground_term.term = "Integer"
                      \/ /\ ground_term.term = "DatatypeValue"
                         /\ ground_term.datatype = <<"xsd:integer">>
                         /\ IsSome(ParseU64(ground_term.value)))
        /\ logical_type = "Any" => IsOk(data_value)

\* C30: for every operation op that construct_from_name can return,
\* construct_from_name(op.name()) = Ok(op); "UCASE" constructs
\* StringUppercase and "LCASE" constructs StringLowercase; and the name of
\* CheckIsNumeric is accepted by construct_from_name.
C30_NamesRoundTrip ==
    opc = "done" =>
        /\ reconstructed = constructed
        /\ ConstructFromName("UCASE") = Ok("StringUppercase")
        /\ ConstructFromName("LCASE") = Ok("StringLowercase")
        /\ IsOk(ConstructFromName(UnaryOperationName("CheckIsNumeric")))

====
